---- MODULE Spec2Model ----
(***************************************************************************)
(* A model of the vcard package (ianprime0509/vcard): the UnfoldingReader, *)
(* Fold, the property-value encoder writeValue and the Parser.             *)
(*                                                                         *)
(* Bytes are the integers 0..255 and strings are sequences of bytes.       *)
(* A text handed to Fold is a sequence of Unicode code points (Go ranges   *)
(* over the runes of its argument); EncodeRune gives their UTF-8 bytes.    *)
(* Errors are records [kind, line, msg, arg]: kind is "nil", "EOF" (the    *)
(* io.EOF value), "ErrIO" (any other error of the byte source) or          *)
(* "ParseError"; arg holds the bytes a message formats with %q or %v.      *)
(***************************************************************************)
EXTENDS Integers, Sequences, FiniteSets, TLC

VARIABLES
    rd,        \* the UnfoldingReader under test (reader specification)
    out,       \* the bytes ReadByte has delivered so far
    res,       \* the result of the last reader call: [op, b, err]
    text,      \* Fold's argument s, a sequence of code points
    width,     \* Fold's argument width
    folded,    \* Fold(text, width) as bytes, once computed
    unfolded,  \* what an UnfoldingReader delivers for folded
    refolded,  \* Fold(folded, width), once computed
    fpc,       \* position of the fold/unfold round trip
    value,     \* a property value, a sequence of code points
    encoded,   \* the bytes writeValue writes for value
    decoded,   \* the result of parsePropertyValue on a wire text
    vpc,       \* position of the encode/decode round trip
    input,     \* the property lines the parser input was built from
    parser,    \* the Parser (its UnfoldingReader) that Next is called on
    nexts,     \* the results of the calls of Next so far
    all,       \* the result of ParseAll on the same input, once called
    vcard,     \* the Card that properties are added to
    ser        \* the result of the last Get, UnfoldedString or String on vcard

vars == <<rd, out, res, text, width, folded, unfolded, refolded, fpc,
          value, encoded, decoded, vpc, input, parser, nexts, all, vcard, ser>>

readerVars == <<rd, out, res>>
foldVars == <<text, width, folded, unfolded, refolded, fpc>>
valueVars == <<value, encoded, decoded, vpc>>
parseVars == <<input, parser, nexts, all>>
cardVars == <<vcard, ser>>

-----------------------------------------------------------------------------
(* Bytes the code names.                                                   *)

TAB == 9
LF == 10
CR == 13
SP == 32
BANG == 33
DQUOTE == 34
COMMA == 44
DASH == 45
DOT == 46
DIGIT0 == 48
DIGIT9 == 57
COLON == 58
SEMI == 59
EQUALS == 61
UpperA == 65
UpperZ == 90
BACKSLASH == 92
LowerA == 97
LowerN == 110
LowerZ == 122
NoPeek == -1

-----------------------------------------------------------------------------
(* Errors.                                                                 *)

NoErr == [kind |-> "nil", line |-> 0, msg |-> "", arg |-> <<>>]
EOFErr == [kind |-> "EOF", line |-> 0, msg |-> "EOF", arg |-> <<>>]
IOErr == [kind |-> "ErrIO", line |-> 0, msg |-> "ErrIO", arg |-> <<>>]

ParseError(line, msg, arg) ==
    [kind |-> "ParseError", line |-> line, msg |-> msg, arg |-> arg]

IsNil(err) == err.kind = "nil"
IsEOF(err) == err.kind = "EOF"

-----------------------------------------------------------------------------
(* UnfoldingReader.                                                        *)

\* The underlying io.Reader is the byte sequence src read from position pos;
\* once the bytes are used up the first Read returns (0, tail) and every
\* later Read (0, after); failed tells that tail has been returned.
NewUnfoldingReaderOn(src, tail, after) ==
    [src |-> src, pos |-> 1, tail |-> tail, after |-> after, failed |-> FALSE,
     line |-> 1, unread |-> <<>>, peeked |-> NoPeek]

\* A reader on a source that keeps returning the same error.
NewUnfoldingReader(src, tail) == NewUnfoldingReaderOn(src, tail, tail)

\* Mutant of readByte: a '\n' handed out from the unread stack is counted
\* as a line again.
readByteCountUnread(r) ==
    IF r.peeked # NoPeek
    THEN [r |-> [r EXCEPT !.peeked = NoPeek], b |-> r.peeked, err |-> NoErr]
    ELSE IF Len(r.unread) > 0
    THEN [r |-> [r EXCEPT !.unread = SubSeq(r.unread, 1, Len(r.unread) - 1),
                          !.line = IF r.unread[Len(r.unread)] = LF
                                   THEN r.line + 1 ELSE r.line],
          b |-> r.unread[Len(r.unread)], err |-> NoErr]
    ELSE IF r.pos > Len(r.src)
    THEN [r |-> [r EXCEPT !.failed = TRUE], b |-> 0,
          err |-> IF r.failed THEN r.after ELSE r.tail]
    ELSE [r |-> [r EXCEPT !.pos = r.pos + 1,
                          !.line = IF r.src[r.pos] = LF THEN r.line + 1 ELSE r.line],
          b |-> r.src[r.pos], err |-> NoErr]

readByte(r) ==
    IF r.peeked # NoPeek
    THEN [r |-> [r EXCEPT !.peeked = NoPeek], b |-> r.peeked, err |-> NoErr]
    ELSE IF Len(r.unread) > 0
    THEN [r |-> [r EXCEPT !.unread = SubSeq(r.unread, 1, Len(r.unread) - 1)],
          b |-> r.unread[Len(r.unread)], err |-> NoErr]
    ELSE IF r.pos > Len(r.src)
    THEN [r |-> [r EXCEPT !.failed = TRUE], b |-> 0,
          err |-> IF r.failed THEN r.after ELSE r.tail]
    ELSE [r |-> [r EXCEPT !.pos = r.pos + 1,
                          !.line = IF r.src[r.pos] = LF THEN r.line + 1 ELSE r.line],
          b |-> r.src[r.pos], err |-> NoErr]

\* Mutant of Unread: the byte read ahead is dropped instead of re-queued.
UnreadLost(r, b) == r

Unread(r, b) == [r EXCEPT !.unread = Append(r.unread, b)]

\* Mutant of ReadByteLF: a space or tab behind a '\n' is not taken as a fold.
ReadByteLFNoFold(rn) ==
    IF ~IsNil(rn.err) THEN [r |-> rn.r, b |-> LF, err |-> NoErr]
    ELSE [r |-> Unread(rn.r, rn.b), b |-> LF, err |-> NoErr]

RECURSIVE ReadByte(_)

\* Lines 58-66 and 70-77: rn is the read behind a '\n'.  A space or a tab there is a
\* fold, and the byte behind it is delivered; any other byte is put back.
ReadByteLF(rn) ==
    IF ~IsNil(rn.err) THEN [r |-> rn.r, b |-> LF, err |-> NoErr]
    ELSE IF rn.b = SP \/ rn.b = TAB THEN ReadByte(rn.r)
    ELSE [r |-> Unread(rn.r, rn.b), b |-> LF, err |-> NoErr]

\* Lines 53-68: r2 is the read behind a '\r'.
ReadByteCR(r2) ==
    IF ~IsNil(r2.err) THEN [r |-> r2.r, b |-> CR, err |-> NoErr]
    ELSE IF r2.b = LF THEN ReadByteLF(readByte(r2.r))
    ELSE [r |-> Unread(r2.r, r2.b), b |-> CR, err |-> NoErr]

\* Lines 48-79: r1 is the first read.
ReadByteFirst(r1) ==
    IF ~IsNil(r1.err) THEN [r |-> r1.r, b |-> 0, err |-> r1.err]
    ELSE IF r1.b = CR THEN ReadByteCR(readByte(r1.r))
    ELSE IF r1.b = LF THEN ReadByteLF(readByte(r1.r))
    ELSE [r |-> r1.r, b |-> r1.b, err |-> NoErr]

ReadByte(r) == ReadByteFirst(readByte(r))

\* Mutant of PeekByteKeep: the byte is pushed on the unread stack instead of
\* being put in the peek slot.
PeekByteKeepOnStack(r1) ==
    IF ~IsNil(r1.err) THEN [r |-> r1.r, b |-> 0, err |-> r1.err]
    ELSE [r |-> Unread(r1.r, r1.b), b |-> r1.b, err |-> NoErr]

\* Lines 108-113: r1 is what ReadByte returned.
PeekByteKeep(r1) ==
    IF ~IsNil(r1.err) THEN [r |-> r1.r, b |-> 0, err |-> r1.err]
    ELSE [r |-> [r1.r EXCEPT !.peeked = r1.b], b |-> r1.b, err |-> NoErr]

\* Mutant of PeekByte: the byte is consumed, not kept for the next ReadByte.
PeekByteConsuming(r) == ReadByte(r)

PeekByte(r) == PeekByteKeep(ReadByte(r))

Line(r) == r.line

\* io.Copy(sb, r): ReadByte until it fails; the bytes delivered.
RECURSIVE ReadAll(_, _)
ReadAll(r, acc) ==
    LET r1 == ReadByte(r) IN
    IF ~IsNil(r1.err) THEN acc ELSE ReadAll(r1.r, Append(acc, r1.b))

-----------------------------------------------------------------------------
(* UTF-8 (unicode/utf8), as Fold and writeValue use it.                    *)

RuneLen(r) ==
    IF r < 0 THEN -1
    ELSE IF r <= 127 THEN 1
    ELSE IF r <= 2047 THEN 2
    ELSE IF r >= 55296 /\ r <= 57343 THEN -1
    ELSE IF r <= 65535 THEN 3
    ELSE IF r <= 1114111 THEN 4
    ELSE -1

\* WriteRune / "%c": the UTF-8 bytes of r, U+FFFD for what is no code point.
EncodeRune(r) ==
    LET c == IF RuneLen(r) = -1 THEN 65533 ELSE r IN
    IF c <= 127 THEN <<c>>
    ELSE IF c <= 2047 THEN <<192 + (c \div 64), 128 + (c % 64)>>
    ELSE IF c <= 65535
    THEN <<224 + (c \div 4096), 128 + ((c \div 64) % 64), 128 + (c % 64)>>
    ELSE <<240 + (c \div 262144), 128 + ((c \div 4096) % 64),
           128 + ((c \div 64) % 64), 128 + (c % 64)>>

\* string(runes): the bytes of a Go string holding these code points.
RECURSIVE EncodeText(_)
EncodeText(t) ==
    IF t = <<>> THEN <<>> ELSE EncodeRune(Head(t)) \o EncodeText(Tail(t))

-----------------------------------------------------------------------------
(* Fold.  A fold state is [sb, line, lastCR]: the output builder, the      *)
(* builder of the current physical line and the pending-'\r' flag.         *)

FoldStart == [sb |-> <<>>, line |-> <<>>, lastCR |-> FALSE]

\* Mutant of EndLine: a line end is written as a bare '\n'.
EndLineBare(st) == [st EXCEPT !.sb = st.sb \o st.line \o <<LF>>, !.line = <<>>]

\* sb.WriteString(line.String() + "\r\n"); line.Reset()
EndLine(st) == [st EXCEPT !.sb = st.sb \o st.line \o <<CR, LF>>, !.line = <<>>]

\* Mutant of WriteFolding: the two bytes of the line ending are not reserved.
WriteFoldingWide(st, r, w) ==
    LET st1 == IF Len(st.line) + RuneLen(r) > w
               THEN [EndLine(st) EXCEPT !.line = <<SP>>]
               ELSE st
    IN [st1 EXCEPT !.line = st1.line \o EncodeRune(r)]

\* Mutant of WriteFolding: the continuation line does not start with a space.
WriteFoldingNoSpace(st, r, w) ==
    LET st1 == IF Len(st.line) + RuneLen(r) > w - 2 THEN EndLine(st) ELSE st
    IN [st1 EXCEPT !.line = st1.line \o EncodeRune(r)]

\* The guarded write of lines 147-152, 161-166 and 170-175: fold first when the
\* rune does not fit in width-2 bytes, then write the rune to the line.
WriteFolding(st, r, w) ==
    LET st1 == IF Len(st.line) + RuneLen(r) > w - 2
               THEN [EndLine(st) EXCEPT !.line = <<SP>>]
               ELSE st
    IN [st1 EXCEPT !.line = st1.line \o EncodeRune(r)]

\* Mutant of FoldRune: a '\r' is written like any other rune, so that "\r\n"
\* is not taken for one line end.
FoldRuneLFOnly(st, r, w) ==
    IF r = LF THEN EndLine(st) ELSE WriteFolding(st, r, w)

\* One iteration of the loop over the runes of s.
FoldRune(st, r, w) ==
    IF st.lastCR /\ r = LF
    THEN [EndLine(st) EXCEPT !.lastCR = FALSE]
    ELSE LET st1 == IF st.lastCR
                    THEN [WriteFolding(st, CR, w) EXCEPT !.lastCR = FALSE]
                    ELSE st
         IN IF r = CR THEN [st1 EXCEPT !.lastCR = TRUE]
            ELSE IF r = LF THEN EndLine(st1)
            ELSE WriteFolding(st1, r, w)

\* The loop over the runes of s, as the loop over the first half of s and
\* then the loop over the second half from the state the first one leaves.
RECURSIVE FoldLoop(_, _, _)
FoldLoop(st, s, w) ==
    IF Len(s) = 0 THEN st
    ELSE IF Len(s) = 1 THEN FoldRune(st, s[1], w)
    ELSE CHOOSE st2 \in {FoldLoop(st1, SubSeq(s, Len(s) \div 2 + 1, Len(s)), w) :
                          st1 \in {FoldLoop(st, SubSeq(s, 1, Len(s) \div 2), w)}} : TRUE

Fold(s, w) ==
    LET st == FoldLoop(FoldStart, s, w)
        st1 == IF st.lastCR THEN WriteFolding(st, CR, w) ELSE st
    IN st1.sb \o st1.line

-----------------------------------------------------------------------------
(* Card and Property.  A Go map is a function on the set of its keys, with *)
(* << >> for the nil and the empty map; a nil slice is << >>.              *)

EmptyMap == << >>

MapGet(m, k) == IF k \in DOMAIN m THEN m[k] ELSE << >>

MapPut(m, k, v) == [x \in (DOMAIN m) \cup {k} |-> IF x = k THEN v ELSE m[x]]

\* strings.ToUpper on the ASCII letters.
\* Mutant of ToUpperByte: the letter case is kept.
ToUpperByteSame(b) == b

ToUpperByte(b) == IF LowerA <= b /\ b <= LowerZ THEN b - (LowerA - UpperA) ELSE b

ToUpper(s) == [i \in 1..Len(s) |-> ToUpperByte(s[i])]

\* The zero Property{}.
NoProperty == [group |-> << >>, params |-> EmptyMap, values |-> << >>]

\* &Card{} and &Card{m: make(map[string][]Property)}.
NoCard == [m |-> EmptyMap]

Get(c, name) == MapGet(c.m, ToUpper(name))

\* Mutant of Add: the property replaces the occurrences of the name.
AddOverwrite(c, name, prop) ==
    [c EXCEPT !.m = MapPut(c.m, ToUpper(name), <<prop>>)]

Add(c, name, prop) ==
    [c EXCEPT !.m = MapPut(c.m, ToUpper(name),
                           Append(MapGet(c.m, ToUpper(name)), prop))]

-----------------------------------------------------------------------------
(* writeValue and writeValues.                                             *)

\* What writeValue writes for the rune last; next is the rune after it in
\* the loop and NoPeek in the statement after the loop.
EscapeLast(last, next) ==
    IF last = BACKSLASH /\ next # SEMI THEN <<BACKSLASH, BACKSLASH>>
    ELSE IF last = COMMA THEN <<BACKSLASH, COMMA>>
    ELSE IF last = LF THEN <<BACKSLASH, LowerN>>
    ELSE EncodeRune(last)

RECURSIVE writeValueLoop(_, _, _)
writeValueLoop(v, last, w) ==
    IF v = << >> THEN w \o EscapeLast(last, -1)
    ELSE writeValueLoop(Tail(v), Head(v),
                        IF last # -1 THEN w \o EscapeLast(last, Head(v)) ELSE w)

writeValue(v) == writeValueLoop(v, -1, << >>)

RECURSIVE writeValues(_)
writeValues(vs) ==
    IF vs = << >> THEN << >>
    ELSE IF Len(vs) = 1 THEN writeValue(vs[1])
    ELSE writeValue(vs[1]) \o <<COMMA>> \o writeValues(Tail(vs))

-----------------------------------------------------------------------------
(* Parser.  Each parse operator takes the parser's UnfoldingReader and     *)
(* returns a record holding the reader afterwards (r), the error (err) and *)
(* what the Go function returns besides.                                   *)

NewParser(src, tail) == NewUnfoldingReader(src, tail)

\* The parameter missing is not used by the code: the message is err.Error().
demandByteAt(line, rb) ==
    IF IsEOF(rb.err)
    THEN [r |-> rb.r, b |-> 0, err |-> ParseError(line, rb.err.msg, << >>)]
    ELSE rb

demandByte(r, missing) == demandByteAt(Line(r), ReadByte(r))

IsNameByte(b) ==
    \/ (UpperA <= b /\ b <= UpperZ)
    \/ (DIGIT0 <= b /\ b <= DIGIT9)
    \/ b = DASH
    \/ (LowerA <= b /\ b <= LowerZ)

RECURSIVE parseNameFrom(_, _, _)

\* One turn of the loop of parseName: pk is what PeekByte returned, line the
\* line read before it.
parseNameLoop(pk, bs, line, missing) ==
    IF IsNil(pk.err) /\ IsNameByte(pk.b)
    THEN parseNameFrom(ReadByte(pk.r).r, Append(bs, ToUpperByte(pk.b)), missing)
    ELSE IF ~IsNil(pk.err) THEN [r |-> pk.r, s |-> bs, err |-> pk.err]
    ELSE IF Len(bs) = 0
    THEN [r |-> pk.r, s |-> << >>, err |-> ParseError(line, missing, << >>)]
    ELSE [r |-> pk.r, s |-> bs, err |-> NoErr]

parseNameFrom(r, bs, missing) == parseNameLoop(PeekByte(r), bs, Line(r), missing)

parseName(r, missing) == parseNameFrom(r, << >>, missing)

isValueChar(b) == b = TAB \/ (SP <= b /\ b # COMMA)

isQuoteSafeChar(b) == b = SP \/ b = TAB \/ b = BANG \/ DQUOTE < b

isSafeChar(b) ==
    \/ b = SP \/ b = TAB \/ b = BANG
    \/ (DQUOTE < b /\ b # SEMI /\ b # COLON /\ b # COMMA)

\* The bytes an escaped b2 stands for (lines 1194-1199); << >> when b2
\* cannot be escaped.
DecodeEscape(b2) ==
    IF b2 = COMMA \/ b2 = BACKSLASH \/ b2 = COLON THEN <<b2>>
    ELSE IF b2 = LowerN THEN <<LF>>
    ELSE IF b2 = SEMI THEN <<BACKSLASH, SEMI>>
    ELSE << >>

RECURSIVE parsePropertyValueLoop(_, _)

\* Lines 1189-1203: d is what demandByte returned behind a backslash read
\* on the line line.
parsePropertyValueEscape(line, d, bs) ==
    IF ~IsNil(d.err) THEN [r |-> d.r, s |-> << >>, err |-> d.err]
    ELSE IF DecodeEscape(d.b) # << >>
    THEN parsePropertyValueLoop(PeekByte(d.r), bs \o DecodeEscape(d.b))
    ELSE [r |-> d.r, s |-> << >>,
          err |-> ParseError(line, "%q cannot be escaped", <<d.b>>)]

parsePropertyValueBackslash(r, bs) ==
    parsePropertyValueEscape(Line(r), demandByte(r, "expected escaped character"), bs)

\* One turn of the loop of parsePropertyValue: pk is what PeekByte returned.
parsePropertyValueLoop(pk, bs) ==
    IF IsNil(pk.err)
    THEN IF ~isValueChar(pk.b) THEN [r |-> pk.r, s |-> bs, err |-> NoErr]
         ELSE IF pk.b = BACKSLASH
         THEN parsePropertyValueBackslash(ReadByte(pk.r).r, bs)
         ELSE parsePropertyValueLoop(PeekByte(ReadByte(pk.r).r), Append(bs, pk.b))
    ELSE IF IsEOF(pk.err) THEN [r |-> pk.r, s |-> bs, err |-> NoErr]
    ELSE [r |-> pk.r, s |-> << >>, err |-> pk.err]

parsePropertyValue(r) == parsePropertyValueLoop(PeekByte(r), << >>)

RECURSIVE parsePropertyValuesLoop(_, _)

\* The test at the head of the loop of parsePropertyValues: pk is what
\* PeekByte returned, values the values with the last one appended.
parsePropertyValuesPeek(pk, values) ==
    IF IsEOF(pk.err) THEN [r |-> pk.r, values |-> values, err |-> NoErr]
    ELSE IF ~IsNil(pk.err) THEN [r |-> pk.r, values |-> << >>, err |-> pk.err]
    ELSE IF pk.b # COMMA THEN [r |-> pk.r, values |-> values, err |-> NoErr]
    ELSE parsePropertyValuesLoop(parsePropertyValue(ReadByte(pk.r).r), values)

\* Mutant of parsePropertyValuesLoop: the value is put in front of the list.
parsePropertyValuesPrepend(v, values) ==
    parsePropertyValuesPeek(PeekByte(v.r), <<v.s>> \o values)

\* The loop of parsePropertyValues: v is what the last parsePropertyValue
\* returned.  The err that the loop tests is the function's, set by the
\* first parsePropertyValue only: inside the body "b, err :=
\* p.r.PeekByte()" declares a new err, and it is this one that the later
\* "value, err = p.parsePropertyValue()" assigns, so v.err is not looked at.
parsePropertyValuesLoop(v, values) ==
    parsePropertyValuesPeek(PeekByte(v.r), Append(values, v.s))

\* Mutant of parsePropertyValuesFirst: an empty first value is not kept.
parsePropertyValuesFirstSkipEmpty(v) ==
    IF ~IsNil(v.err) THEN [r |-> v.r, values |-> << >>, err |-> v.err]
    ELSE IF v.s = << >> THEN parsePropertyValuesPeek(PeekByte(v.r), << >>)
    ELSE parsePropertyValuesLoop(v, << >>)

parsePropertyValuesFirst(v) ==
    IF ~IsNil(v.err) THEN [r |-> v.r, values |-> << >>, err |-> v.err]
    ELSE parsePropertyValuesLoop(v, << >>)

parsePropertyValues(r) == parsePropertyValuesFirst(parsePropertyValue(r))

RECURSIVE parseQuotedLoop(_, _, _)
parseQuotedLoop(rb, bs, line) ==
    IF IsNil(rb.err)
    THEN IF rb.b = DQUOTE THEN [r |-> rb.r, s |-> bs, err |-> NoErr]
         ELSE IF ~isQuoteSafeChar(rb.b)
         THEN [r |-> rb.r, s |-> << >>,
               err |-> ParseError(line,
                           "unexpected byte %q in quoted parameter value", <<rb.b>>)]
         ELSE parseQuotedLoop(ReadByte(rb.r), Append(bs, rb.b), Line(rb.r))
    ELSE IF ~IsEOF(rb.err) THEN [r |-> rb.r, s |-> << >>, err |-> rb.err]
    ELSE [r |-> rb.r, s |-> << >>,
          err |-> ParseError(line, "unexpected end of quoted parameter value", << >>)]

parseQuotedParameterValue(r) == parseQuotedLoop(ReadByte(r), << >>, Line(r))

RECURSIVE parseUnquotedLoop(_, _)
parseUnquotedLoop(pk, bs) ==
    IF IsNil(pk.err)
    THEN IF ~isSafeChar(pk.b) THEN [r |-> pk.r, s |-> bs, err |-> NoErr]
         ELSE parseUnquotedLoop(PeekByte(ReadByte(pk.r).r), Append(bs, pk.b))
    ELSE [r |-> pk.r, s |-> bs, err |-> pk.err]

parseUnquotedParameterValue(r) == parseUnquotedLoop(PeekByte(r), << >>)

\* Lines 1282-1293: pk is what PeekByte returned.
parseParameterValuePeek(pk) ==
    IF IsEOF(pk.err) THEN [r |-> pk.r, s |-> << >>, err |-> NoErr]
    ELSE IF ~IsNil(pk.err) THEN [r |-> pk.r, s |-> << >>, err |-> pk.err]
    ELSE IF pk.b = DQUOTE THEN parseQuotedParameterValue(ReadByte(pk.r).r)
    ELSE parseUnquotedParameterValue(pk.r)

parseParameterValue(r) == parseParameterValuePeek(PeekByte(r))

RECURSIVE parseParameterLoop(_, _, _)

parseParameterPeek(key, pk, values) ==
    IF IsEOF(pk.err)
    THEN [r |-> pk.r, key |-> key, values |-> values, err |-> NoErr]
    ELSE IF ~IsNil(pk.err)
    THEN [r |-> pk.r, key |-> << >>, values |-> << >>, err |-> pk.err]
    ELSE IF pk.b # COMMA
    THEN [r |-> pk.r, key |-> key, values |-> values, err |-> NoErr]
    ELSE parseParameterLoop(key, parseParameterValue(ReadByte(pk.r).r), values)

\* The loop of parseParameter: v is what the last parseParameterValue
\* returned; its err is shadowed in the body as in parsePropertyValues.
parseParameterLoop(key, v, values) ==
    parseParameterPeek(key, PeekByte(v.r), Append(values, v.s))

parseParameterFirst(key, v) ==
    IF ~IsNil(v.err)
    THEN [r |-> v.r, key |-> << >>, values |-> << >>, err |-> v.err]
    ELSE parseParameterLoop(key, v, << >>)

\* Lines 1252-1260: d is what demandByte returned behind the name.
parseParameterEquals(key, line, d) ==
    IF ~IsNil(d.err)
    THEN [r |-> d.r, key |-> << >>, values |-> << >>, err |-> d.err]
    ELSE IF d.b # EQUALS
    THEN [r |-> d.r, key |-> << >>, values |-> << >>,
          err |-> ParseError(line, "expected '=' after parameter name %v", key)]
    ELSE parseParameterFirst(key, parseParameterValue(d.r))

parseParameterKey(n) ==
    IF ~IsNil(n.err)
    THEN [r |-> n.r, key |-> << >>, values |-> << >>, err |-> n.err]
    ELSE parseParameterEquals(ToUpper(n.s), Line(n.r),
             demandByte(n.r, "expected '=' after parameter name %v"))

parseParameter(r) == parseParameterKey(parseName(r, "expected parameter name"))

RECURSIVE parseParametersLoop(_, _)

parseParametersPeek(pk, params) ==
    IF IsEOF(pk.err) THEN [r |-> pk.r, params |-> params, err |-> NoErr]
    ELSE IF ~IsNil(pk.err) THEN [r |-> pk.r, params |-> EmptyMap, err |-> pk.err]
    ELSE IF pk.b # SEMI THEN [r |-> pk.r, params |-> params, err |-> NoErr]
    ELSE parseParametersLoop(parseParameter(ReadByte(pk.r).r), params)

\* Mutant of parseParametersLoop: the values of a later occurrence of a
\* parameter name replace those of the earlier one.
parseParametersLoopOverwrite(p, params) ==
    parseParametersPeek(PeekByte(p.r), MapPut(params, p.key, p.values))

\* The loop of parseParameters: p is what the last parseParameter returned;
\* its err is shadowed in the body as in parsePropertyValues.
parseParametersLoop(p, params) ==
    parseParametersPeek(PeekByte(p.r),
        MapPut(params, p.key, MapGet(params, p.key) \o p.values))

parseParametersFirst(p) ==
    IF ~IsNil(p.err) THEN [r |-> p.r, params |-> EmptyMap, err |-> p.err]
    ELSE parseParametersLoop(p, EmptyMap)

parseParameters(r) == parseParametersFirst(parseParameter(r))

PropertyFailed(r, err) ==
    [r |-> r, name |-> << >>, prop |-> NoProperty, err |-> err]

\* Mutant of parsePropertyLineEnd: any byte behind the values is accepted.
parsePropertyLineEndAny(name, prop, line, rb) ==
    IF IsEOF(rb.err) THEN [r |-> rb.r, name |-> name, prop |-> prop, err |-> NoErr]
    ELSE IF ~IsNil(rb.err) THEN PropertyFailed(rb.r, rb.err)
    ELSE [r |-> rb.r, name |-> name, prop |-> prop, err |-> NoErr]

\* Lines 1142-1152: rb is what ReadByte returned behind the values.
parsePropertyLineEnd(name, prop, line, rb) ==
    IF IsEOF(rb.err) THEN [r |-> rb.r, name |-> name, prop |-> prop, err |-> NoErr]
    ELSE IF ~IsNil(rb.err) THEN PropertyFailed(rb.r, rb.err)
    ELSE IF rb.b # LF
    THEN PropertyFailed(rb.r,
             ParseError(line, "unexpected character %q after property value", <<rb.b>>))
    ELSE [r |-> rb.r, name |-> name, prop |-> prop, err |-> NoErr]

parsePropertyValuesDone(group, name, params, vs) ==
    IF ~IsNil(vs.err) THEN PropertyFailed(vs.r, vs.err)
    ELSE parsePropertyLineEnd(name,
             [group |-> group, params |-> params, values |-> vs.values],
             Line(vs.r), ReadByte(vs.r))

\* parseProperty from line 1129 on: b is the byte after the name or after
\* the parameters.
parsePropertyColon(r, group, name, params, b, line) ==
    IF b # COLON THEN PropertyFailed(r, ParseError(line, "expected ':'", << >>))
    ELSE parsePropertyValuesDone(group, name, params, parsePropertyValues(r))

\* Lines 1120-1127: ps is what parseParameters returned.  "params, err :=
\* p.parseParameters()" declares a new err, so the error of the demandByte
\* that follows is never seen by the test of line 1129: on a failure b is 0
\* and "expected ':'" is reported.
parsePropertyParamsDone(group, name, ps, d) ==
    IF ~IsNil(ps.err) THEN PropertyFailed(ps.r, ps.err)
    ELSE parsePropertyColon(d.r, group, name, ps.params, d.b, Line(ps.r))

parsePropertyParamsRead(group, name, ps) ==
    parsePropertyParamsDone(group, name, ps, demandByte(ps.r, "expected ':'"))

\* parseProperty from line 1113 on.
parsePropertyParams(r, group, name, b, err, line) ==
    IF ~IsNil(err) THEN PropertyFailed(r, err)
    ELSE IF b = SEMI THEN parsePropertyParamsRead(group, name, parseParameters(r))
    ELSE parsePropertyColon(r, group, name, EmptyMap, b, line)

\* Lines 1110-1113: d2 is what demandByte returned behind the name that
\* follows the group.
parsePropertyGroupedSep(group, n2, d2) ==
    parsePropertyParams(d2.r, group, n2.s, d2.b, d2.err, Line(n2.r))

parsePropertyGrouped(group, n2) ==
    IF ~IsNil(n2.err) THEN PropertyFailed(n2.r, n2.err)
    ELSE parsePropertyGroupedSep(group, n2, demandByte(n2.r, "expected ';' or ':'"))

\* Lines 1098-1112: d1 is what demandByte returned behind the first name.
parsePropertySep(name, line, d1) ==
    IF ~IsNil(d1.err) THEN PropertyFailed(d1.r, d1.err)
    ELSE IF d1.b = DOT
    THEN parsePropertyGrouped(name, parseName(d1.r, "expected property name"))
    ELSE parsePropertyParams(d1.r, << >>, name, d1.b, NoErr, line)

parsePropertyName(n1) ==
    IF ~IsNil(n1.err) THEN PropertyFailed(n1.r, n1.err)
    ELSE parsePropertySep(n1.s, Line(n1.r), demandByte(n1.r, "expected ';' or ':'"))

parseProperty(r) == parsePropertyName(parseName(r, "expected property name"))

NameBEGIN == <<66, 69, 71, 73, 78>>
NameEND == <<69, 78, 68>>
ValueVCARD == <<86, 67, 65, 82, 68>>

\* A marker test that does not look at the group.
IsMarkerAnyGroup(prop) ==
    /\ Cardinality(DOMAIN prop.params) = 0
    /\ Len(prop.values) = 1
    /\ ToUpper(prop.values[1]) = ValueVCARD

\* The test of lines 1063-1064 and 1072-1073 on the group, the parameters
\* and the values of a BEGIN or END property.
IsMarker(prop) ==
    /\ Len(prop.group) = 0
    /\ Cardinality(DOMAIN prop.params) = 0
    /\ Len(prop.values) = 1
    /\ ToUpper(prop.values[1]) = ValueVCARD

RECURSIVE NextLoop(_, _, _)
NextLoop(card, line, p) ==
    IF IsNil(p.err)
    THEN IF p.name = NameEND
         THEN IF ~IsMarker(p.prop)
              THEN [r |-> p.r, card |-> NoCard,
                    err |-> ParseError(line, "malformed end tag", << >>)]
              ELSE [r |-> p.r, card |-> card, err |-> NoErr]
         ELSE NextLoop([card EXCEPT !.m = MapPut(card.m, p.name,
                                          Append(MapGet(card.m, p.name), p.prop))],
                       Line(p.r), parseProperty(p.r))
    ELSE IF IsEOF(p.err)
    THEN [r |-> p.r, card |-> NoCard,
          err |-> ParseError(Line(p.r),
                      "unexpected end of input before ending card", << >>)]
    ELSE [r |-> p.r, card |-> NoCard, err |-> p.err]

\* Lines 1060-1067: p is what the first parseProperty returned.
NextBegin(line, p) ==
    IF ~IsNil(p.err) THEN [r |-> p.r, card |-> NoCard, err |-> p.err]
    ELSE IF p.name # NameBEGIN \/ ~IsMarker(p.prop)
    THEN [r |-> p.r, card |-> NoCard,
          err |-> ParseError(line, "expected beginning of card", << >>)]
    ELSE NextLoop(NoCard, Line(p.r), parseProperty(p.r))

Next(r) == NextBegin(Line(r), parseProperty(r))

RECURSIVE ParseAllLoop(_, _)
ParseAllLoop(n, cards) ==
    IF IsEOF(n.err) THEN [cards |-> cards, err |-> NoErr]
    ELSE IF ~IsNil(n.err) THEN [cards |-> cards, err |-> n.err]
    ELSE ParseAllLoop(Next(n.r), Append(cards, n.card))

\* Mutant of ParseAll: the first card is parsed and left out.
ParseAllSkipFirst(src, tail) ==
    ParseAllLoop(Next(Next(NewParser(src, tail)).r), << >>)

\* A ParseAll that returns no cards when it returns an error.
ParseAllNoCards(src, tail) ==
    LET a == ParseAllLoop(Next(NewParser(src, tail)), << >>)
    IN IF IsNil(a.err) THEN a ELSE [cards |-> << >>, err |-> a.err]

\* The loop of ParseAll on the parser p.
ParseAllFrom(p) == ParseAllLoop(Next(p), << >>)

ParseAll(src, tail) == ParseAllFrom(NewParser(src, tail))

-----------------------------------------------------------------------------
(* Property setters, Card.UnfoldedString and Card.String.                  *)

SetGroup(p, group) == [p EXCEPT !.group = ToUpper(group)]

SetParam(p, param, values) ==
    [p EXCEPT !.params = MapPut(p.params, ToUpper(param), values)]

SetValues(p, values) == [p EXCEPT !.values = values]

IsCont(b) == 128 <= b /\ b <= 191

\* The number of bytes of the UTF-8 encoding that starts at byte i of bs, and
\* 1 where none starts.
WidthAt(bs, i) ==
    IF /\ 194 <= bs[i] /\ bs[i] <= 223
       /\ i + 1 <= Len(bs) /\ IsCont(bs[i + 1])
    THEN 2
    ELSE IF /\ 224 <= bs[i] /\ bs[i] <= 239
            /\ i + 2 <= Len(bs) /\ IsCont(bs[i + 1]) /\ IsCont(bs[i + 2])
            /\ RuneLen((bs[i] - 224) * 4096 + (bs[i + 1] - 128) * 64
                       + (bs[i + 2] - 128)) = 3
    THEN 3
    ELSE IF /\ 240 <= bs[i] /\ bs[i] <= 244
            /\ i + 3 <= Len(bs)
            /\ IsCont(bs[i + 1]) /\ IsCont(bs[i + 2]) /\ IsCont(bs[i + 3])
            /\ RuneLen((bs[i] - 240) * 262144 + (bs[i + 1] - 128) * 4096
                       + (bs[i + 2] - 128) * 64 + (bs[i + 3] - 128)) = 4
    THEN 4
    ELSE 1

\* The code point of the encoding that starts at byte i, U+FFFD where none
\* starts.
RuneAt(bs, i) ==
    IF bs[i] < 128 THEN bs[i]
    ELSE IF WidthAt(bs, i) = 2 THEN (bs[i] - 192) * 64 + (bs[i + 1] - 128)
    ELSE IF WidthAt(bs, i) = 3
    THEN (bs[i] - 224) * 4096 + (bs[i + 1] - 128) * 64 + (bs[i + 2] - 128)
    ELSE IF WidthAt(bs, i) = 4
    THEN (bs[i] - 240) * 262144 + (bs[i + 1] - 128) * 4096
         + (bs[i + 2] - 128) * 64 + (bs[i + 3] - 128)
    ELSE 65533

\* Byte i is where the range loop starts a rune: it is no later byte of an
\* encoding that starts at one of the three bytes before it (the first byte
\* of an encoding is never a later byte of another one).
RuneStart(bs, i) == \A k \in 1..3 : i - k >= 1 => WidthAt(bs, i - k) <= k

\* The code points that "for _, r := range s" gives for the bytes of a Go
\* string, U+FFFD for each byte that starts no valid encoding: the runes of
\* the bytes before a rune start near the middle, then those from it on.
RECURSIVE DecodeText(_)
DecodeText(bs) ==
    IF Len(bs) = 0 THEN << >>
    ELSE IF WidthAt(bs, 1) = Len(bs) THEN <<RuneAt(bs, 1)>>
    ELSE LET h == CHOOSE i \in 2..Len(bs) :
                      /\ Len(bs) \div 2 - 2 <= i /\ i <= Len(bs) \div 2 + 4
                      /\ RuneStart(bs, i)
         IN DecodeText(SubSeq(bs, 1, h - 1)) \o DecodeText(SubSeq(bs, h, Len(bs)))

\* writeValues on the values of a property, which are Go strings.
writeStrings(values) == writeValues([i \in 1..Len(values) |-> DecodeText(values[i])])

\* strings.ContainsAny(v, ";:") and what writeParam writes for the value v.
writeParamValue(v) ==
    IF \E i \in 1..Len(v) : v[i] = SEMI \/ v[i] = COLON
    THEN <<DQUOTE>> \o v \o <<DQUOTE>>
    ELSE v

RECURSIVE writeParamValues(_)
writeParamValues(values) ==
    IF values = << >> THEN << >>
    ELSE IF Len(values) = 1 THEN writeParamValue(values[1])
    ELSE writeParamValue(values[1]) \o <<COMMA>> \o writeParamValues(Tail(values))

writeParam(key, values) == key \o <<EQUALS>> \o writeParamValues(values)

\* The loop over prop.params; korder is the order in which the keys come.
RECURSIVE writeParams(_, _)
writeParams(params, korder) ==
    IF korder = << >> THEN << >>
    ELSE IF Head(korder) \in DOMAIN params
    THEN <<SEMI>> \o writeParam(Head(korder), params[Head(korder)])
         \o writeParams(params, Tail(korder))
    ELSE writeParams(params, Tail(korder))

NameVERSION == <<86, 69, 82, 83, 73, 79, 78>>

\* Lines 885-887.
GroupPrefix(prop) ==
    IF Len(prop.group) > 1 THEN prop.group \o <<DOT>> ELSE << >>

\* Lines 884-895: the line of one occurrence.
PropertyLine(name, prop, korder) ==
    GroupPrefix(prop) \o name \o writeParams(prop.params, korder)
    \o <<COLON>> \o writeStrings(prop.values) \o <<LF>>

RECURSIVE PropertyLines(_, _, _)
PropertyLines(name, props, korder) ==
    IF props = << >> THEN << >>
    ELSE PropertyLine(name, Head(props), korder)
         \o PropertyLines(name, Tail(props), korder)

\* Mutant of VersionLine: VERSION is not written in front.
VersionLineNone(c) == << >>

\* Lines 866-875.
VersionLine(c) ==
    IF NameVERSION \in DOMAIN c.m /\ Len(MapGet(c.m, NameVERSION)) > 0
    THEN NameVERSION \o <<COLON>> \o writeStrings(c.m[NameVERSION][1].values) \o <<LF>>
    ELSE << >>

\* Lines 876-896: the loop over c.m; order is the order in which the names
\* come.
RECURSIVE CardLines(_, _, _)
CardLines(c, order, korder) ==
    IF order = << >> THEN << >>
    ELSE IF Head(order) = NameVERSION \/ Head(order) \notin DOMAIN c.m
    THEN CardLines(c, Tail(order), korder)
    ELSE PropertyLines(Head(order), c.m[Head(order)], korder)
         \o CardLines(c, Tail(order), korder)

\* The iteration order of a Go map is not specified: order is the order of
\* the names of c.m and korder the order of the parameter names in this
\* call.
UnfoldedString(c, order, korder) ==
    NameBEGIN \o <<COLON>> \o ValueVCARD \o <<LF>>
    \o VersionLine(c)
    \o CardLines(c, order, korder)
    \o NameEND \o <<COLON>> \o ValueVCARD \o <<LF>>

StringWidth == 77

\* Mutant of String: 77 is taken for the width of the content of a line.
StringWide(c, order, korder) ==
    Fold(DecodeText(UnfoldedString(c, order, korder)), StringWidth + 2)

String(c, order, korder) == Fold(DecodeText(UnfoldedString(c, order, korder)), StringWidth)

-----------------------------------------------------------------------------
(* Bounds and input alphabets.                                             *)

MaxSrcLen == 5     \* longest byte source given to an UnfoldingReader
MaxTextLen == 4    \* longest text given to Fold, in code points
MaxWidth == 6      \* largest width given to Fold
MaxValueLen == 4   \* longest property value, in code points
MaxChunks == 3     \* most chunks of property lines in a parser input
MaxMarkerChunks == 2  \* most chunks in an input of SpecMarkers
MaxWhole == 1      \* most whole cards in front of a truncated card
MaxProps == 2      \* most properties between BEGIN and END in SpecOrder
MaxValues == 2     \* most values of a property in SpecOrder
MaxFlips == 2      \* most letters put in small letters one by one in SpecCase
MaxFolds == 1      \* most continuations put into a card in SpecWrap
MaxEndLen == 2     \* most bytes behind the last value of a line in SpecEnd
MaxOccurrences == 3  \* most occurrences added to a card in SpecCard
MaxPad == 71       \* most letters of the parameter value in SpecString
MaxTail == 2       \* most runes of the property value in SpecString
MaxAdds == 2       \* most Add calls on a card in SpecRecord

SrcBytes == {CR, LF, SP, TAB, LowerA}
TextRunes == {CR, LF, SP, TAB, LowerA, 233}
ValueRunes == {COMMA, BACKSLASH, LF, SEMI, COLON, LowerN, LowerA, 233}

SeqsUpTo(S, n) == UNION {[1..k -> S] : k \in 0..n}

-----------------------------------------------------------------------------
(* Idle values of the variables a specification does not use.              *)

IdleReader ==
    /\ rd = NewUnfoldingReader(<<>>, EOFErr)
    /\ out = <<>>
    /\ res = [op |-> "idle", b |-> 0, err |-> NoErr, ended |-> FALSE]

IdleFold ==
    /\ text = <<>> /\ width = 0 /\ folded = <<>> /\ unfolded = <<>>
    /\ refolded = <<>> /\ fpc = "idle"

IdleValue ==
    /\ value = <<>> /\ encoded = <<>> /\ vpc = "idle"
    /\ decoded = [s |-> <<>>, err |-> NoErr]

NotSerialized == [op |-> "none", order |-> << >>, out |-> << >>]

IdleCard == vcard = [m |-> << >>] /\ ser = NotSerialized

IdleParse ==
    /\ input = [chunks |-> <<>>, drop |-> 0] /\ nexts = <<>>
    /\ parser = NewUnfoldingReader(<<>>, EOFErr)
    /\ all = [done |-> FALSE, cards |-> <<>>, err |-> NoErr]

-----------------------------------------------------------------------------
(* Reader specification: ReadByte and PeekByte called in any order on a    *)
(* reader over any source of SrcBytes.                                     *)

InitReader ==
    /\ \E s \in SeqsUpTo(SrcBytes, MaxSrcLen) : rd = NewUnfoldingReader(s, EOFErr)
    /\ out = <<>>
    /\ res = [op |-> "new", b |-> 0, err |-> NoErr, ended |-> FALSE]
    /\ IdleFold /\ IdleValue /\ IdleParse /\ IdleCard

ReadByteCall ==
    LET r1 == ReadByte(rd) IN
    /\ rd' = r1.r
    /\ out' = IF IsNil(r1.err) THEN Append(out, r1.b) ELSE out
    /\ res' = [op |-> "ReadByte", b |-> r1.b, err |-> r1.err,
               ended |-> res.ended \/ IsEOF(r1.err)]
    /\ UNCHANGED <<foldVars, valueVars, parseVars, cardVars>>

PeekByteCall ==
    LET r1 == PeekByte(rd) IN
    /\ rd' = r1.r
    /\ res' = [op |-> "PeekByte", b |-> r1.b, err |-> r1.err,
               ended |-> res.ended \/ IsEOF(r1.err)]
    /\ UNCHANGED <<out, foldVars, valueVars, parseVars, cardVars>>

NextReader == ReadByteCall \/ PeekByteCall

SpecReader == InitReader /\ [][NextReader]_vars

-----------------------------------------------------------------------------
(* Fold specification: Fold applied to any text of TextRunes at any width  *)
(* up to MaxWidth, and the result read back through an UnfoldingReader.    *)

InitFold ==
    /\ text \in SeqsUpTo(TextRunes, MaxTextLen)
    /\ width \in 0..MaxWidth
    /\ folded = <<>> /\ unfolded = <<>> /\ refolded = <<>> /\ fpc = "start"
    /\ IdleReader /\ IdleValue /\ IdleParse /\ IdleCard

FoldCall ==
    /\ fpc = "start"
    /\ folded' = Fold(text, width)
    /\ fpc' = "folded"
    /\ UNCHANGED <<text, width, unfolded, refolded, readerVars, valueVars, parseVars, cardVars>>

UnfoldCall ==
    /\ fpc = "folded"
    /\ unfolded' = ReadAll(NewUnfoldingReader(folded, EOFErr), <<>>)
    /\ fpc' = "unfolded"
    /\ UNCHANGED <<text, width, folded, refolded, readerVars, valueVars, parseVars, cardVars>>

\* Fold applied to its own result, a Go string, at the same width.
RefoldCall ==
    /\ fpc = "folded"
    /\ refolded' = Fold(DecodeText(folded), width)
    /\ fpc' = "refolded"
    /\ UNCHANGED <<text, width, folded, unfolded, readerVars, valueVars, parseVars, cardVars>>

NextFold == FoldCall \/ UnfoldCall \/ RefoldCall

SpecFold == InitFold /\ [][NextFold]_vars

-----------------------------------------------------------------------------
(* Value specification: a property value of ValueRunes is written by       *)
(* writeValue and parsed back, or its bytes are parsed as they stand.      *)

InitValue ==
    /\ value \in SeqsUpTo(ValueRunes, MaxValueLen)
    /\ encoded = << >> /\ vpc = "start"
    /\ decoded = [s |-> << >>, err |-> NoErr]
    /\ IdleReader /\ IdleFold /\ IdleParse /\ IdleCard

WriteValueCall ==
    /\ vpc = "start"
    /\ encoded' = writeValue(value)
    /\ vpc' = "written"
    /\ UNCHANGED <<value, decoded, readerVars, foldVars, parseVars, cardVars>>

ParseWrittenCall ==
    /\ vpc = "written"
    /\ LET v == parsePropertyValue(NewParser(encoded, EOFErr))
       IN decoded' = [s |-> v.s, err |-> v.err]
    /\ vpc' = "reparsed"
    /\ UNCHANGED <<value, encoded, readerVars, foldVars, parseVars, cardVars>>

ParseWireCall ==
    /\ vpc = "start"
    /\ LET v == parsePropertyValue(NewParser(EncodeText(value), EOFErr))
       IN decoded' = [s |-> v.s, err |-> v.err]
    /\ vpc' = "parsed"
    /\ UNCHANGED <<value, encoded, readerVars, foldVars, parseVars, cardVars>>

NextValue == WriteValueCall \/ ParseWrittenCall \/ ParseWireCall

SpecValue == InitValue /\ [][NextValue]_vars

-----------------------------------------------------------------------------
(* Parser inputs.  An input is a sequence of chunks, a chunk a sequence of *)
(* property lines, and the bytes given to the parser are the lines' texts  *)
(* one after the other, less the last input.drop bytes.  Each line comes   *)
(* with what the grammar says it is (ok: it is a property at all).         *)

Letters == <<"A", "B", "C", "D", "E", "F", "G", "H", "I", "J", "K", "L", "M",
             "N", "O", "P", "Q", "R", "S", "T", "U", "V", "W", "X", "Y", "Z">>
Smalls == <<"a", "b", "c", "d", "e", "f", "g", "h", "i", "j", "k", "l", "m",
            "n", "o", "p", "q", "r", "s", "t", "u", "v", "w", "x", "y", "z">>

Ord(c) ==
    IF \E i \in 1..Len(Letters) : Letters[i] = c
    THEN UpperA - 1 + CHOOSE i \in 1..Len(Letters) : Letters[i] = c
    ELSE IF \E i \in 1..Len(Smalls) : Smalls[i] = c
    THEN LowerA - 1 + CHOOSE i \in 1..Len(Smalls) : Smalls[i] = c
    ELSE CASE c = ":" -> COLON [] c = ";" -> SEMI [] c = "," -> COMMA
           [] c = "." -> DOT [] c = "=" -> EQUALS
           [] c = "CR" -> CR [] c = "LF" -> LF

\* The bytes of a text given character by character.
B(cs) == [i \in 1..Len(cs) |-> Ord(cs[i])]

Property(group, params, values) ==
    [group |-> group, params |-> params, values |-> values]

PropLine(txt, name, prop) == [text |-> txt, ok |-> TRUE, name |-> name, prop |-> prop]

Lines == <<
    \* 1  BEGIN:VCARD\n
    PropLine(B(<<"B","E","G","I","N",":","V","C","A","R","D","LF">>),
             B(<<"B","E","G","I","N">>),
             Property(<< >>, EmptyMap, <<B(<<"V","C","A","R","D">>)>>)),
    \* 2  END:VCARD\n
    PropLine(B(<<"E","N","D",":","V","C","A","R","D","LF">>),
             B(<<"E","N","D">>),
             Property(<< >>, EmptyMap, <<B(<<"V","C","A","R","D">>)>>)),
    \* 3  begin:vCard\r\n
    PropLine(B(<<"b","e","g","i","n",":","v","C","a","r","d","CR","LF">>),
             B(<<"B","E","G","I","N">>),
             Property(<< >>, EmptyMap, <<B(<<"v","C","a","r","d">>)>>)),
    \* 4  end:vcard\r\n
    PropLine(B(<<"e","n","d",":","v","c","a","r","d","CR","LF">>),
             B(<<"E","N","D">>),
             Property(<< >>, EmptyMap, <<B(<<"v","c","a","r","d">>)>>)),
    \* 5  P:v\n
    PropLine(B(<<"P",":","v","LF">>), B(<<"P">>),
             Property(<< >>, EmptyMap, <<B(<<"v">>)>>)),
    \* 6  g.q;k=w:x,y\r\n
    PropLine(B(<<"g",".","q",";","k","=","w",":","x",",","y","CR","LF">>),
             B(<<"Q">>),
             Property(B(<<"G">>), MapPut(EmptyMap, B(<<"K">>), <<B(<<"w">>)>>),
                      <<B(<<"x">>), B(<<"y">>)>>)),
    \* 7  G.BEGIN:VCARD\n
    PropLine(B(<<"G",".","B","E","G","I","N",":","V","C","A","R","D","LF">>),
             B(<<"B","E","G","I","N">>),
             Property(B(<<"G">>), EmptyMap, <<B(<<"V","C","A","R","D">>)>>)),
    \* 8  BEGIN;K=w:VCARD\n
    PropLine(B(<<"B","E","G","I","N",";","K","=","w",":","V","C","A","R","D","LF">>),
             B(<<"B","E","G","I","N">>),
             Property(<< >>, MapPut(EmptyMap, B(<<"K">>), <<B(<<"w">>)>>),
                      <<B(<<"V","C","A","R","D">>)>>)),
    \* 9  BEGIN:VCARD,\n
    PropLine(B(<<"B","E","G","I","N",":","V","C","A","R","D",",","LF">>),
             B(<<"B","E","G","I","N">>),
             Property(<< >>, EmptyMap, <<B(<<"V","C","A","R","D">>), << >> >>)),
    \* 10  BEGIN:VCARDS\n
    PropLine(B(<<"B","E","G","I","N",":","V","C","A","R","D","S","LF">>),
             B(<<"B","E","G","I","N">>),
             Property(<< >>, EmptyMap, <<B(<<"V","C","A","R","D","S">>)>>)),
    \* 11  G.END:VCARD\n
    PropLine(B(<<"G",".","E","N","D",":","V","C","A","R","D","LF">>),
             B(<<"E","N","D">>),
             Property(B(<<"G">>), EmptyMap, <<B(<<"V","C","A","R","D">>)>>)),
    \* 12  END;K=w:VCARD\n
    PropLine(B(<<"E","N","D",";","K","=","w",":","V","C","A","R","D","LF">>),
             B(<<"E","N","D">>),
             Property(<< >>, MapPut(EmptyMap, B(<<"K">>), <<B(<<"w">>)>>),
                      <<B(<<"V","C","A","R","D">>)>>)),
    \* 13  END:VCARD,\n
    PropLine(B(<<"E","N","D",":","V","C","A","R","D",",","LF">>),
             B(<<"E","N","D">>),
             Property(<< >>, EmptyMap, <<B(<<"V","C","A","R","D">>), << >> >>)),
    \* 14  END:X\n
    PropLine(B(<<"E","N","D",":","X","LF">>), B(<<"E","N","D">>),
             Property(<< >>, EmptyMap, <<B(<<"X">>)>>)),
    \* 15  P\n, which is no property: the ':' is missing
    [text |-> B(<<"P","LF">>), ok |-> FALSE, name |-> << >>,
     prop |-> Property(<< >>, EmptyMap, << >>)],
    \* 16  P;K="w":v\n
    PropLine(<<Ord("P"), SEMI, Ord("K"), EQUALS, DQUOTE, Ord("w"), DQUOTE,
               COLON, Ord("v"), LF>>,
             B(<<"P">>),
             Property(<< >>, MapPut(EmptyMap, B(<<"K">>), <<B(<<"w">>)>>),
                      <<B(<<"v">>)>>))
>>

Chunks == <<
    <<1, 2>>, <<1, 5, 2>>, <<3, 6, 5, 4>>,          \* whole cards
    <<5>>, <<7, 2>>, <<8, 2>>, <<9, 2>>, <<10, 2>>, \* no proper BEGIN
    <<1, 11>>, <<1, 5, 12>>, <<1, 13>>, <<1, 14>>,  \* no proper END
    <<1, 15, 2>>,                                   \* a malformed line
    <<1, 5>>,                                       \* no END at all
    <<1, 16, 2>>                                    \* a whole card again
>>

WholeCards == {1, 2, 3, 15}

\* The chunks of SpecParse: two whole cards, and one chunk for each way a
\* record fails.
ParseChunks == {1, 3, 4, 12, 13, 14}

RECURSIVE Flatten(_)
Flatten(ss) == IF ss = << >> THEN << >> ELSE Head(ss) \o Flatten(Tail(ss))

\* The lines of an input, and its bytes.
LinesOf(in) == Flatten([i \in 1..Len(in.chunks) |-> Chunks[in.chunks[i]]])

BytesOf(in) ==
    LET whole == Flatten([i \in 1..Len(LinesOf(in)) |-> Lines[LinesOf(in)[i]].text])
    IN SubSeq(whole, 1, Len(whole) - in.drop)

-----------------------------------------------------------------------------
(* Parser specifications: Next called until it fails, and ParseAll, on the *)
(* same input.  SpecParse takes inputs of whole lines over a byte source   *)
(* that ends in io.EOF or in another error; SpecMarkers takes every chunk, *)
(* with every variant of the BEGIN and END lines; SpecTruncated takes      *)
(* whole cards followed by a card cut off at any byte.                     *)

NotCalled == [done |-> FALSE, cards |-> << >>, err |-> NoErr]

InitParser(in, tail) ==
    /\ input = in
    /\ parser = NewParser(BytesOf(in), tail)
    /\ nexts = << >>
    /\ all = NotCalled
    /\ IdleReader /\ IdleFold /\ IdleValue /\ IdleCard

InitParse ==
    \E cs \in SeqsUpTo(ParseChunks, MaxChunks), tail \in {EOFErr, IOErr} :
        InitParser([chunks |-> cs, drop |-> 0], tail)

InitMarkers ==
    \E cs \in SeqsUpTo(1..Len(Chunks), MaxMarkerChunks) :
        InitParser([chunks |-> cs, drop |-> 0], EOFErr)

InitTruncated ==
    \E cs \in SeqsUpTo(WholeCards, MaxWhole), c \in WholeCards :
        \E d \in 0..Len(BytesOf([chunks |-> <<c>>, drop |-> 0])) :
            InitParser([chunks |-> Append(cs, c), drop |-> d], EOFErr)

\* Nothing is left to read: the source has no more bytes and no byte is
\* held back by the reader.
Exhausted(r) == r.pos > Len(r.src) /\ r.unread = << >> /\ r.peeked = NoPeek

NextCall ==
    /\ IF nexts = << >> THEN TRUE ELSE IsNil(nexts[Len(nexts)].err)
    /\ \E n \in {Next(parser)} :
           /\ parser' = n.r
           /\ nexts' = Append(nexts, [card |-> n.card, err |-> n.err,
                                      atEnd |-> Exhausted(parser)])
    /\ UNCHANGED <<input, all, readerVars, foldVars, valueVars, cardVars>>

ParseAllCall ==
    /\ ~all.done
    /\ \E a \in {ParseAll(parser.src, parser.tail)} :
           all' = [done |-> TRUE, cards |-> a.cards, err |-> a.err]
    /\ UNCHANGED <<input, parser, nexts, readerVars, foldVars, valueVars, cardVars>>

NextParse == NextCall \/ ParseAllCall

SpecParse == InitParse /\ [][NextParse]_vars

SpecMarkers == InitMarkers /\ [][NextParse]_vars

SpecTruncated == InitTruncated /\ [][NextParse]_vars

-----------------------------------------------------------------------------
(* SpecOrder: the parser on one card written out from a list of            *)
(* properties, each a name and a list of values without special bytes.     *)

OrderNames == {B(<<"P">>), B(<<"Q">>)}
OrderValues == {<< >>, B(<<"a">>)}

NonEmptySeqs(S, n) == UNION {[1..k -> S] : k \in 1..n}

RECURSIVE Join(_, _)
Join(ss, sep) ==
    IF Len(ss) = 0 THEN << >>
    ELSE IF Len(ss) = 1 THEN ss[1]
    ELSE ss[1] \o sep \o Join(Tail(ss), sep)

\* The line NAME:value,value,...\n of a property without group and
\* parameters.
PlainLine(name, values) == name \o <<COLON>> \o Join(values, <<COMMA>>) \o <<LF>>

\* BEGIN:VCARD, the lines of the properties ps, END:VCARD.
PlainCard(ps) ==
    Lines[1].text
    \o Flatten([i \in 1..Len(ps) |-> PlainLine(ps[i].name, ps[i].values)])
    \o Lines[2].text

InitOrder ==
    \E ps \in SeqsUpTo([name : OrderNames, values : NonEmptySeqs(OrderValues, MaxValues)],
                       MaxProps) :
        /\ input = [props |-> ps]
        /\ parser = NewParser(PlainCard(ps), EOFErr)
        /\ nexts = << >>
        /\ all = NotCalled
        /\ IdleReader /\ IdleFold /\ IdleValue /\ IdleCard

SpecOrder == InitOrder /\ [][NextParse]_vars

-----------------------------------------------------------------------------
(* SpecParams: the parser on the card BEGIN:VCARD / P;k=v,..;k=v,..:x /     *)
(* END:VCARD whose property has up to MaxParams parameters, with names     *)
(* that repeat, also in the other letter case.                             *)

MaxParams == 3

ParamKeys == {B(<<"K">>), B(<<"k">>), B(<<"L">>)}
ParamValueLists == {<<B(<<"a">>)>>, <<B(<<"b">>)>>, <<B(<<"a">>), B(<<"b">>)>>}

\* ;key=value,value
ParamText(pa) == <<SEMI>> \o pa.key \o <<EQUALS>> \o Join(pa.values, <<COMMA>>)

ParamsCard(pas) ==
    Lines[1].text
    \o B(<<"P">>) \o Flatten([i \in 1..Len(pas) |-> ParamText(pas[i])])
    \o B(<<":", "x", "LF">>)
    \o Lines[2].text

InitParams ==
    \E pas \in NonEmptySeqs([key : ParamKeys, values : ParamValueLists], MaxParams) :
        /\ input = [params |-> pas]
        /\ parser = NewParser(ParamsCard(pas), EOFErr)
        /\ nexts = << >>
        /\ all = NotCalled
        /\ IdleReader /\ IdleFold /\ IdleValue /\ IdleCard

SpecParams == InitParams /\ [][NextParse]_vars

-----------------------------------------------------------------------------
(* SpecDemand: the parser on whole cards followed by BEGIN:VCARD and a     *)
(* property that ends where a structural byte is demanded.                 *)

\* The cut properties and the message passed to demandByte at the cut.
DemandCuts == <<
    [text |-> B(<<"P">>),                     msg |-> "expected ';' or ':'"],
    [text |-> B(<<"G", ".", "P">>),           msg |-> "expected ';' or ':'"],
    [text |-> B(<<"P", ";", "K">>),           msg |-> "expected '=' after parameter name %v"],
    [text |-> B(<<"P", ";", "K", "=">>),      msg |-> "expected ':'"],
    [text |-> B(<<"P", ";", "K", "=">>) \o <<DQUOTE, LowerA, DQUOTE>>,
                                              msg |-> "expected ':'"],
    [text |-> B(<<"P", ":", "a">>) \o <<BACKSLASH>>,
                                              msg |-> "expected escaped character"]
>>

DemandBytes(in) ==
    BytesOf([chunks |-> in.chunks, drop |-> 0]) \o Lines[1].text \o DemandCuts[in.cut].text

InitDemand ==
    \E cs \in SeqsUpTo(WholeCards, MaxWhole), k \in 1..Len(DemandCuts) :
        /\ input = [chunks |-> cs, cut |-> k]
        /\ parser = NewParser(DemandBytes(input), EOFErr)
        /\ nexts = << >>
        /\ all = NotCalled
        /\ IdleReader /\ IdleFold /\ IdleValue /\ IdleCard

SpecDemand == InitDemand /\ [][NextParse]_vars

-----------------------------------------------------------------------------
(* SpecCase: the parser on the card BEGIN:VCARD / G.P;K=w:v / END:VCARD    *)
(* with some letters of the markers, the VCARD values, the group, the name *)
(* and the parameter name in small letters, and with the parameter value   *)
(* and the property value in either case.                                  *)

CaseHead == B(<<"B","E","G","I","N",":","V","C","A","R","D","LF",
                "G",".","P",";","K","=">>)
CaseTail == B(<<"LF","E","N","D",":","V","C","A","R","D","LF">>)

\* The card in capital letters, with the parameter value pv and the value v.
CaseText(pv, v) == CaseHead \o pv \o <<COLON>> \o v \o CaseTail

\* The positions of the letters of the structural tokens.
CaseLetters ==
    {i \in 1..Len(CaseHead) : UpperA <= CaseHead[i] /\ CaseHead[i] <= UpperZ}
    \cup {Len(CaseHead) + 3 + i : i \in {j \in 1..Len(CaseTail) :
              UpperA <= CaseTail[j] /\ CaseTail[j] <= UpperZ}}

\* The text t with the letters at the positions flips in small letters.
SmallAt(t, flips) ==
    [i \in 1..Len(t) |-> IF i \in flips THEN t[i] + (LowerA - UpperA) ELSE t[i]]

InitCase ==
    \E fs \in SeqsUpTo(CaseLetters, MaxFlips), whole \in BOOLEAN,
       pv \in {B(<<"w">>), B(<<"W">>)}, v \in {B(<<"v">>), B(<<"V">>)} :
        /\ input = [flips |-> IF whole THEN CaseLetters
                              ELSE {fs[i] : i \in 1..Len(fs)},
                    pv |-> pv, v |-> v]
        /\ parser = NewParser(SmallAt(CaseText(pv, v), input.flips), EOFErr)
        /\ nexts = << >>
        /\ all = NotCalled
        /\ IdleReader /\ IdleFold /\ IdleValue /\ IdleCard

SpecCase == InitCase /\ [][NextParse]_vars

-----------------------------------------------------------------------------
(* SpecWrap: the parser on a whole card with continuations put in: a line  *)
(* terminator and a space or a tab behind some of its bytes, anywhere but  *)
(* between the CR and the LF of a line terminator and behind the last byte.*)

Wraps == {<<CR, LF, SP>>, <<CR, LF, TAB>>, <<LF, SP>>, <<LF, TAB>>}

WrapPositions(t) == {i \in 1..(Len(t) - 1) : ~(t[i] = CR /\ t[i + 1] = LF)}

\* The text t with wrap put in behind each byte whose position is in folds.
Wrapped(t, folds, wrap) ==
    Flatten([i \in 1..Len(t) |-> IF i \in folds THEN <<t[i]>> \o wrap ELSE <<t[i]>>])

CardOf(in) == BytesOf([chunks |-> <<in.card>>, drop |-> 0])

InitWrap ==
    \E c \in WholeCards, wrap \in Wraps :
        \E fs \in SeqsUpTo(WrapPositions(BytesOf([chunks |-> <<c>>, drop |-> 0])),
                           MaxFolds) :
            /\ input = [card |-> c, folds |-> {fs[i] : i \in 1..Len(fs)}, wrap |-> wrap]
            /\ parser = NewParser(Wrapped(CardOf(input), input.folds, wrap), EOFErr)
            /\ nexts = << >>
            /\ all = NotCalled
            /\ IdleReader /\ IdleFold /\ IdleValue /\ IdleCard

SpecWrap == InitWrap /\ [][NextParse]_vars

-----------------------------------------------------------------------------
(* SpecEnd: what may stand behind the last value of a property.  A line    *)
(* without its terminator is followed by the bytes input.e, which are no   *)
(* value bytes; parseProperty is called on that text, and ParseAll on a    *)
(* card that has the bytes behind its END line.                            *)

\* The lines 1, 2, 5 and 6 of Lines, without their terminators.
EndLines == {1, 2, 5, 6}

Unterminated(l) ==
    LET t == Lines[l].text
        n == IF Len(t) >= 2 /\ t[Len(t) - 1] = CR THEN 2 ELSE 1
    IN SubSeq(t, 1, Len(t) - n)

EndBytes == {CR, LF, 0, 31}

InitEnd ==
    \E l \in EndLines, e \in SeqsUpTo(EndBytes, MaxEndLen) :
        /\ input = [line |-> l, e |-> e]
        /\ parser = NewParser(Unterminated(l) \o e, EOFErr)
        /\ nexts = << >>
        /\ all = NotCalled
        /\ IdleReader /\ IdleFold /\ IdleValue /\ IdleCard

\* parseProperty on the line followed by input.e.
ParsePropertyCall ==
    /\ nexts = << >>
    /\ \E p \in {parseProperty(parser)} :
           /\ parser' = p.r
           /\ nexts' = <<[name |-> p.name, prop |-> p.prop, err |-> p.err]>>
    /\ UNCHANGED <<input, all, readerVars, foldVars, valueVars, cardVars>>

\* The card of ParseAllEndCall: BEGIN:VCARD, the line if it is no marker,
\* and END:VCARD followed by e.
EndCard(l, e) ==
    Lines[1].text
    \o (IF Lines[l].name \in {NameBEGIN, NameEND} THEN << >> ELSE Lines[l].text)
    \o Unterminated(2) \o e

ParseAllEndCall ==
    /\ ~all.done
    /\ \E a \in {ParseAll(EndCard(input.line, input.e), EOFErr)} :
           all' = [done |-> TRUE, cards |-> a.cards, err |-> a.err]
    /\ UNCHANGED <<input, parser, nexts, readerVars, foldVars, valueVars, cardVars>>

NextEnd == ParsePropertyCall \/ ParseAllEndCall

SpecEnd == InitEnd /\ [][NextEnd]_vars

-----------------------------------------------------------------------------
(* SpecCard: a Card built with Add from properties made with the setters,  *)
(* and serialized with UnfoldedString and String.                          *)

CardNames == {NameVERSION, B(<<"p">>), B(<<"Q">>)}

CardProps ==
    { SetValues(NoProperty, <<B(<<"a">>)>>),
      SetValues(SetGroup(NoProperty, B(<<"g">>)), <<B(<<"x">>), << >>>>),
      SetValues(SetParam(SetGroup(NoProperty, B(<<"g", "r">>)),
                         B(<<"k">>), <<B(<<"w">>), B(<<"a", ";", "b">>)>>),
                <<B(<<"b">>)>>) }

\* All orders in which a map with the keys S can be iterated.
Perms(S) ==
    {s \in [1..Cardinality(S) -> S] : \A x \in S : \E i \in 1..Cardinality(S) : s[i] = x}

RECURSIVE Sum(_, _)
Sum(f, S) ==
    IF S = {} THEN 0
    ELSE LET x == CHOOSE y \in S : TRUE IN f[x] + Sum(f, S \ {x})

\* The number of occurrences a card holds.
Occurrences(c) == Sum([n \in DOMAIN c.m |-> Len(c.m[n])], DOMAIN c.m)

ParamNames(c) ==
    UNION {UNION {DOMAIN c.m[n][i].params : i \in 1..Len(c.m[n])} : n \in DOMAIN c.m}

InitCard ==
    /\ vcard = NoCard
    /\ ser = NotSerialized
    /\ IdleReader /\ IdleFold /\ IdleValue /\ IdleParse

AddCall ==
    /\ Occurrences(vcard) < MaxOccurrences
    /\ \E name \in CardNames, prop \in CardProps :
           vcard' = Add(vcard, name, prop)
    /\ ser' = NotSerialized
    /\ UNCHANGED <<readerVars, foldVars, valueVars, parseVars>>

UnfoldedStringCall ==
    /\ \E order \in Perms(DOMAIN vcard.m), korder \in Perms(ParamNames(vcard)) :
           ser' = [op |-> "UnfoldedString", order |-> order,
                   out |-> UnfoldedString(vcard, order, korder)]
    /\ UNCHANGED <<vcard, readerVars, foldVars, valueVars, parseVars>>

StringCall ==
    /\ \E order \in Perms(DOMAIN vcard.m), korder \in Perms(ParamNames(vcard)) :
           ser' = [op |-> "String", order |-> order,
                   out |-> String(vcard, order, korder)]
    /\ UNCHANGED <<vcard, readerVars, foldVars, valueVars, parseVars>>

NextCard == AddCall \/ UnfoldedStringCall \/ StringCall

SpecCard == InitCard /\ [][NextCard]_vars

-----------------------------------------------------------------------------
(* SpecString: Card.String on a card with one property whose line is as    *)
(* long as the folding width, give or take a few bytes: a parameter value  *)
(* of MinPad..MaxPad letters and a value of up to MaxTail runes, plain,    *)
(* of two, three and four bytes, and '\r'.                                 *)

MinPad == MaxPad - 7

TailRunes == {LowerA, 233, 8364, 66560, CR}

PaddedCard(pad, tl) ==
    Add(NoCard, B(<<"p">>),
        SetValues(SetParam(NoProperty, B(<<"k">>), <<[i \in 1..pad |-> LowerA]>>),
                  <<EncodeText(tl)>>))

InitString ==
    /\ \E pad \in MinPad..MaxPad, tl \in SeqsUpTo(TailRunes, MaxTail) :
           vcard = PaddedCard(pad, tl)
    /\ ser = NotSerialized
    /\ IdleReader /\ IdleFold /\ IdleValue /\ IdleParse

SpecString == InitString /\ [][StringCall]_vars

-----------------------------------------------------------------------------
(* SpecGet: Add and Get on a zero Card with names in either letter case;   *)
(* input is the list of the Add calls made, each <<name, property>>.       *)

GetNames == {B(<<"p">>), B(<<"P">>), B(<<"q">>), B(<<"Q">>), B(<<"p", "Q">>)}

GetProps ==
    { SetValues(NoProperty, <<B(<<"a">>)>>),
      SetValues(SetGroup(NoProperty, B(<<"g">>)), <<B(<<"b">>)>>) }

InitGet ==
    /\ vcard = NoCard
    /\ ser = NotSerialized
    /\ input = << >>
    /\ parser = NewParser(<< >>, EOFErr)
    /\ nexts = << >>
    /\ all = NotCalled
    /\ IdleReader /\ IdleFold /\ IdleValue

AddLoggedCall ==
    /\ Len(input) < MaxOccurrences
    /\ \E name \in GetNames, prop \in GetProps :
           /\ vcard' = Add(vcard, name, prop)
           /\ input' = Append(input, <<name, prop>>)
    /\ ser' = NotSerialized
    /\ UNCHANGED <<parser, nexts, all, readerVars, foldVars, valueVars>>

GetCall ==
    /\ \E name \in GetNames :
           ser' = [op |-> "Get", order |-> name, out |-> Get(vcard, name)]
    /\ UNCHANGED <<vcard, readerVars, foldVars, valueVars, parseVars>>

NextGet == AddLoggedCall \/ GetCall

SpecGet == InitGet /\ [][NextGet]_vars

-----------------------------------------------------------------------------
(* SpecRecord: the cards a caller can hold: the card a successful Next     *)
(* returned, changed by Add with properties made from the zero Property    *)
(* with the setters.  input.added lists the Add calls, each                *)
(* <<name, property>>.                                                     *)

RecordTexts ==
    { << >>,
      <<[name |-> B(<<"P">>), values |-> <<<< >>>>]>>,
      <<[name |-> B(<<"P">>), values |-> <<B(<<"a">>), << >>>>],
        [name |-> B(<<"Q">>), values |-> <<B(<<"a">>)>>]>> }

RecordProps ==
    { NoProperty,
      SetValues(NoProperty, << >>),
      SetGroup(NoProperty, B(<<"g">>)),
      SetParam(NoProperty, B(<<"k">>), <<B(<<"w">>)>>),
      SetValues(NoProperty, <<<< >>>>),
      SetValues(SetGroup(NoProperty, B(<<"g">>)), <<B(<<"a">>)>>) }

InitRecord ==
    /\ \E ps \in RecordTexts :
           /\ input = [props |-> ps, added |-> << >>]
           /\ parser = NewParser(PlainCard(ps), EOFErr)
    /\ nexts = << >>
    /\ all = NotCalled
    /\ IdleReader /\ IdleFold /\ IdleValue /\ IdleCard

\* Next; the caller keeps the card of a successful call.
NextRecordCall ==
    /\ input.added = << >>
    /\ IF nexts = << >> THEN TRUE ELSE IsNil(nexts[Len(nexts)].err)
    /\ \E n \in {Next(parser)} :
           /\ parser' = n.r
           /\ nexts' = Append(nexts, [card |-> n.card, err |-> n.err,
                                      atEnd |-> Exhausted(parser)])
           /\ vcard' = IF IsNil(n.err) THEN n.card ELSE vcard
    /\ UNCHANGED <<input, all, ser, readerVars, foldVars, valueVars>>

AddRecordCall ==
    /\ Len(input.added) < MaxAdds
    /\ \E name \in OrderNames, prop \in RecordProps :
           /\ vcard' = Add(vcard, name, prop)
           /\ input' = [input EXCEPT !.added = Append(input.added, <<name, prop>>)]
    /\ UNCHANGED <<parser, nexts, all, ser, readerVars, foldVars, valueVars>>

NextRecord == NextRecordCall \/ AddRecordCall

SpecRecord == InitRecord /\ [][NextRecord]_vars

-----------------------------------------------------------------------------
(* SpecRound: a card is parsed with Next from a text of up to MaxProps     *)
(* property lines, written with String under any iteration order of its    *)
(* maps, and the result is parsed with ParseAll.                           *)

RoundLines ==
    { B(<<"P", ":", "a", "LF">>),
      B(<<"P", ":", "LF">>),
      B(<<"g", ".", "Q", ":", "x", "LF">>),
      B(<<"g", "r", ".", "Q", ";", "k", "=", "w", ":", "b", "LF">>),
      B(<<"V", "E", "R", "S", "I", "O", "N", ":">>) \o <<DIGIT0 + 3, DOT, DIGIT0, LF>>,
      B(<<"Q", ";", "k", "=">>) \o <<DQUOTE, LowerA, COMMA, LowerA, DQUOTE>>
          \o B(<<":", "c", "LF">>) }

RoundCard(ls) == Lines[1].text \o Flatten(ls) \o Lines[2].text

InitRound ==
    /\ \E ls \in NonEmptySeqs(RoundLines, MaxProps) :
           /\ input = [lines |-> ls]
           /\ parser = NewParser(RoundCard(ls), EOFErr)
    /\ nexts = << >>
    /\ all = NotCalled
    /\ IdleReader /\ IdleFold /\ IdleValue /\ IdleCard

\* Next on the text; the caller keeps the card.
RoundNextCall ==
    /\ nexts = << >>
    /\ \E n \in {Next(parser)} :
           /\ parser' = n.r
           /\ nexts' = <<[card |-> n.card, err |-> n.err, atEnd |-> Exhausted(parser)]>>
           /\ vcard' = IF IsNil(n.err) THEN n.card ELSE vcard
    /\ UNCHANGED <<input, all, ser, readerVars, foldVars, valueVars>>

RoundStringCall ==
    /\ Len(nexts) = 1 /\ IsNil(nexts[1].err)
    /\ ser.op = "none"
    /\ StringCall

\* ParseAll on what String returned.
RoundParseAllCall ==
    /\ ser.op = "String"
    /\ ~all.done
    /\ \E a \in {ParseAll(ser.out, EOFErr)} :
           all' = [done |-> TRUE, cards |-> a.cards, err |-> a.err]
    /\ UNCHANGED <<input, parser, nexts, vcard, ser, readerVars, foldVars, valueVars>>

NextRound == RoundNextCall \/ RoundStringCall \/ RoundParseAllCall

SpecRound == InitRound /\ [][NextRound]_vars

-----------------------------------------------------------------------------
(* SpecSource: a source that delivers the bytes of a whole card up to any  *)
(* byte and then fails with an I/O error; afterwards it keeps returning    *)
(* the error or reports the end of the input.  The source is read either   *)
(* through an UnfoldingReader, with ReadByte and PeekByte until one fails, *)
(* or through a Parser, with Next or ParseAll.                             *)

SourceCards == {1, 3}

SourceOf(in) == NewUnfoldingReaderOn(BytesOf(in), IOErr, in.after)

InitSource ==
    /\ \E c \in SourceCards, after \in {IOErr, EOFErr} :
           \E d \in 0..Len(BytesOf([chunks |-> <<c>>, drop |-> 0])) :
               input = [chunks |-> <<c>>, drop |-> d, after |-> after]
    /\ rd = SourceOf(input)
    /\ parser = SourceOf(input)
    /\ out = << >>
    /\ res = [op |-> "new", b |-> 0, err |-> NoErr, ended |-> FALSE]
    /\ nexts = << >>
    /\ all = NotCalled
    /\ IdleFold /\ IdleValue /\ IdleCard

Unparsed == nexts = << >> /\ ~all.done

SourceReadByteCall == Unparsed /\ IsNil(res.err) /\ ReadByteCall

SourcePeekByteCall == Unparsed /\ IsNil(res.err) /\ PeekByteCall

SourceNextCall == res.op = "new" /\ ~all.done /\ NextCall

SourceParseAllCall ==
    /\ res.op = "new" /\ nexts = << >> /\ ~all.done
    /\ \E a \in {ParseAllFrom(SourceOf(input))} :
           all' = [done |-> TRUE, cards |-> a.cards, err |-> a.err]
    /\ UNCHANGED <<input, parser, nexts, readerVars, foldVars, valueVars, cardVars>>

NextSource ==
    SourceReadByteCall \/ SourcePeekByteCall \/ SourceNextCall \/ SourceParseAllCall

SpecSource == InitSource /\ [][NextSource]_vars

-----------------------------------------------------------------------------
(* What the claims compare the code with.                                  *)

IsPrefix(a, b) == Len(a) <= Len(b) /\ SubSeq(b, 1, Len(a)) = a

StartsWith(b, i, pat) ==
    /\ i + Len(pat) - 1 <= Len(b)
    /\ SubSeq(b, i, i + Len(pat) - 1) = pat

IsBlank(b) == b = SP \/ b = TAB

\* The unfolding of a byte string, scanned left to right without pushback.
RECURSIVE RefUnfoldFrom(_, _)
RefUnfoldFrom(s, i) ==
    IF i > Len(s) THEN <<>>
    ELSE IF s[i] = CR /\ i < Len(s) /\ s[i + 1] = LF
    THEN IF i + 2 <= Len(s) /\ IsBlank(s[i + 2])
         THEN RefUnfoldFrom(s, i + 3)
         ELSE <<LF>> \o RefUnfoldFrom(s, i + 2)
    ELSE IF s[i] = LF
    THEN IF i + 1 <= Len(s) /\ IsBlank(s[i + 1])
         THEN RefUnfoldFrom(s, i + 2)
         ELSE <<LF>> \o RefUnfoldFrom(s, i + 1)
    ELSE <<s[i]>> \o RefUnfoldFrom(s, i + 1)

RefUnfold(s) == RefUnfoldFrom(s, 1)

\* The physical lines of a byte string: what lies between its CRLF pairs.
RECURSIVE SplitCRLF(_, _, _, _)
SplitCRLF(b, i, cur, acc) ==
    IF i > Len(b) THEN Append(acc, cur)
    ELSE IF StartsWith(b, i, <<CR, LF>>)
    THEN SplitCRLF(b, i + 2, <<>>, Append(acc, cur))
    ELSE SplitCRLF(b, i + 1, Append(cur, b[i]), acc)

PhysicalLines(b) == SplitCRLF(b, 1, <<>>, <<>>)

\* A text with every "\r\n" replaced by "\n".
RECURSIVE NormalizeCRLF(_)
NormalizeCRLF(t) ==
    IF t = <<>> THEN <<>>
    ELSE IF Len(t) >= 2 /\ t[1] = CR /\ t[2] = LF
    THEN <<LF>> \o NormalizeCRLF(SubSeq(t, 3, Len(t)))
    ELSE <<t[1]>> \o NormalizeCRLF(Tail(t))

\* No line feed of the text is directly followed by a space or a tab.
NoContinuation(t) ==
    \A i \in 1..(Len(t) - 1) : ~(t[i] = LF /\ IsBlank(t[i + 1]))

\* The width leaves room for a line ending, and every character of the text
\* fits on a continuation line, behind its leading space.
Fits(t, w) == w >= 2 /\ \A i \in 1..Len(t) : 1 + RuneLen(t[i]) <= w - 2

\* b[i..] is t[j..] with its line ends written as CRLF and with CR LF SP
\* inserted at character boundaries only.
RECURSIVE IsFoldingOf(_, _, _, _)
IsFoldingOf(b, i, t, j) ==
    IF j > Len(t) THEN i > Len(b)
    ELSE \/ /\ StartsWith(b, i, <<CR, LF, SP>>)
            /\ IsFoldingOf(b, i + 3, t, j)
         \/ /\ t[j] = LF
            /\ StartsWith(b, i, <<CR, LF>>)
            /\ IsFoldingOf(b, i + 2, t, j + 1)
         \/ /\ t[j] = CR /\ j < Len(t) /\ t[j + 1] = LF
            /\ StartsWith(b, i, <<CR, LF>>)
            /\ IsFoldingOf(b, i + 2, t, j + 2)
         \/ /\ t[j] # LF
            /\ ~(t[j] = CR /\ j < Len(t) /\ t[j + 1] = LF)
            /\ StartsWith(b, i, EncodeRune(t[j]))
            /\ IsFoldingOf(b, i + RuneLen(t[j]), t, j + 1)

LFAfterCR(b) == \A i \in 1..Len(b) : b[i] = LF => (i > 1 /\ b[i - 1] = CR)

-----------------------------------------------------------------------------
(* Claims about the UnfoldingReader and Fold.                              *)

\* C1: the bytes ReadByte delivers are, in order, the reference unfolding of
\* the source: always a prefix of it, all of it by the time ReadByte reports
\* end-of-input, and after the first end-of-input every further ReadByte and
\* PeekByte reports end-of-input again.
C1_ReadByteUnfolds ==
    /\ IsPrefix(out, RefUnfold(rd.src))
    /\ (IsEOF(ReadByte(rd).err) => out = RefUnfold(rd.src))
    /\ (~IsEOF(ReadByte(rd).err) => IsNil(ReadByte(rd).err))
    /\ (res.ended => IsEOF(ReadByte(rd).err) /\ IsEOF(PeekByte(rd).err))

C1_Witness ==
    /\ res.op = "ReadByte" /\ res.ended
    /\ Len(out) >= 2 /\ Len(out) < Len(rd.src)
    /\ \E i \in 1..Len(out) : out[i] = LF

\* C7: PeekByte returns what ReadByte returns in the same state and what the
\* ReadByte after it returns, a second PeekByte returns the same and changes
\* nothing, a peek followed by a read leaves the reader where the read alone
\* leaves it, and the bytes delivered in total are those a reader that is
\* never peeked delivers.
C7_PeekByteNonConsuming ==
    LET p == PeekByte(rd)
        r1 == ReadByte(rd)
        p2 == PeekByte(p.r)
        r2 == ReadByte(p.r)
    IN /\ p.b = r1.b /\ p.err = r1.err
       /\ r2.b = p.b /\ r2.err = p.err
       /\ p2.b = p.b /\ p2.err = p.err /\ p2.r = p.r
       /\ r2.r = r1.r
       /\ ReadAll(rd, out) = ReadAll(NewUnfoldingReader(rd.src, rd.tail), <<>>)

C7_Witness ==
    /\ res.op = "PeekByte" /\ IsNil(res.err)
    /\ (res.b = LF \/ res.b = CR)
    /\ rd.peeked = res.b /\ Len(rd.unread) > 0 /\ Len(out) > 0

C5_FoldUnfoldRoundTrip ==
    (fpc = "unfolded" /\ NoContinuation(text)) =>
        unfolded = EncodeText(NormalizeCRLF(text))

C5_Witness ==
    /\ fpc = "unfolded" /\ NoContinuation(text)
    /\ Len(folded) >= Len(EncodeText(text)) + 3
    /\ \E i \in 1..Len(text) : text[i] = LF
    /\ unfolded # folded

\* C6: Fold's output is its input with every line end written as CRLF and
\* with CR LF SP inserted at character boundaries, nothing else changed;
\* every LF of the output directly follows a CR.
C6_FoldOnlyInserts ==
    fpc # "start" => LFAfterCR(folded) /\ IsFoldingOf(folded, 1, text, 1)

C6_Witness ==
    /\ fpc = "folded"
    /\ \E i \in 1..Len(text) : RuneLen(text[i]) = 2
    /\ \E i \in 1..(Len(text) - 1) : text[i] = LF /\ text[i + 1] # LF
    /\ Len(folded) >= Len(EncodeText(text)) + 4

-----------------------------------------------------------------------------
(* Claims about property values.                                           *)

\* The decoding of one property value on the wire, as the grammar gives it:
\* "value" with the decoded bytes, "badescape" with the byte that cannot be
\* escaped, "cut" when the text ends behind a backslash.
RECURSIVE RefDecodeFrom(_, _, _)
RefDecodeFrom(w, i, acc) ==
    IF i > Len(w) THEN [kind |-> "value", s |-> acc, bad |-> 0]
    ELSE IF w[i] = COMMA \/ (w[i] < SP /\ w[i] # TAB)
    THEN [kind |-> "value", s |-> acc, bad |-> 0]
    ELSE IF w[i] # BACKSLASH THEN RefDecodeFrom(w, i + 1, Append(acc, w[i]))
    ELSE IF i = Len(w) THEN [kind |-> "cut", s |-> << >>, bad |-> 0]
    ELSE IF w[i + 1] = COMMA \/ w[i + 1] = BACKSLASH
    THEN RefDecodeFrom(w, i + 2, Append(acc, w[i + 1]))
    ELSE IF w[i + 1] = LowerN THEN RefDecodeFrom(w, i + 2, Append(acc, LF))
    ELSE IF w[i + 1] = SEMI
    THEN RefDecodeFrom(w, i + 2, acc \o <<BACKSLASH, SEMI>>)
    ELSE [kind |-> "badescape", s |-> << >>, bad |-> w[i + 1]]

RefDecode(w) == RefDecodeFrom(w, 1, << >>)

\* C2: parsePropertyValue decodes \, to a comma, \\ to a backslash, \n to a
\* line feed and \; to backslash-semicolon, and fails with "cannot be
\* escaped" on a backslash followed by any other character.
C2_EscapeDecoding ==
    vpc = "parsed" =>
        LET ref == RefDecode(EncodeText(value)) IN
        /\ ref.kind = "value" => IsNil(decoded.err) /\ decoded.s = ref.s
        /\ ref.kind = "badescape" =>
               /\ decoded.err.kind = "ParseError"
               /\ decoded.err.msg = "%q cannot be escaped"
               /\ decoded.err.arg = <<ref.bad>>

\* C3: parsing what writeValue wrote for a value gives the value back.
C3_ValueRoundTrip ==
    vpc = "reparsed" => IsNil(decoded.err) /\ decoded.s = EncodeText(value)

-----------------------------------------------------------------------------
(* Claims about the parser.                                                *)

\* What the format asks of a BEGIN or END line: no group, no parameters and
\* the one value VCARD in any letter case.
RefIsMarker(l) ==
    /\ l.prop.group = << >>
    /\ l.prop.params = EmptyMap
    /\ Len(l.prop.values) = 1
    /\ ToUpper(l.prop.values[1]) = B(<<"V","C","A","R","D">>)

\* The record that starts at line i of the lines ls: "card" with the card
\* and the line behind it, or the way it fails: "end" when no line is left
\* and the source ended, "io" when the source failed, "syntax" at a line
\* that is no property, "badbegin", "badend", and "open" when the source
\* ended before the END line.
RECURSIVE RefBody(_, _, _, _)
RefBody(ls, j, card, tail) ==
    IF j > Len(ls)
    THEN [kind |-> IF IsEOF(tail) THEN "open" ELSE "io", card |-> NoCard, next |-> j]
    ELSE LET l == Lines[ls[j]] IN
         IF ~l.ok THEN [kind |-> "syntax", card |-> NoCard, next |-> j]
         ELSE IF l.name = B(<<"E","N","D">>)
         THEN IF RefIsMarker(l)
              THEN [kind |-> "card", card |-> card, next |-> j + 1]
              ELSE [kind |-> "badend", card |-> NoCard, next |-> j]
         ELSE RefBody(ls, j + 1, Add(card, l.name, l.prop), tail)

RefRecord(ls, i, tail) ==
    IF i > Len(ls)
    THEN [kind |-> IF IsEOF(tail) THEN "end" ELSE "io", card |-> NoCard, next |-> i]
    ELSE LET l == Lines[ls[i]] IN
         IF ~l.ok THEN [kind |-> "syntax", card |-> NoCard, next |-> i]
         ELSE IF l.name # B(<<"B","E","G","I","N">>) \/ ~RefIsMarker(l)
         THEN [kind |-> "badbegin", card |-> NoCard, next |-> i]
         ELSE RefBody(ls, i + 1, NoCard, tail)

\* The records of ls one after the other, up to and with the first that is
\* no card.
RECURSIVE RefRecordsFrom(_, _, _, _)
RefRecordsFrom(ls, i, tail, acc) ==
    LET rec == RefRecord(ls, i, tail) IN
    IF rec.kind = "card" THEN RefRecordsFrom(ls, rec.next, tail, Append(acc, rec))
    ELSE Append(acc, rec)

RefRecords(ls, tail) == RefRecordsFrom(ls, 1, tail, << >>)

\* The error err is the one a record that fails in the way kind gives.
IsErrorOf(err, kind) ==
    CASE kind = "end" -> IsNil(err)
      [] kind = "io" -> err = IOErr
      [] kind = "syntax" -> err.kind = "ParseError"
      [] kind = "badbegin" ->
             err.kind = "ParseError" /\ err.msg = "expected beginning of card"
      [] kind = "badend" ->
             err.kind = "ParseError" /\ err.msg = "malformed end tag"
      [] kind = "open" ->
             /\ err.kind = "ParseError"
             /\ err.msg = "unexpected end of input before ending card"

Truncated ==
    LET last == Len(BytesOf([chunks |-> <<input.chunks[Len(input.chunks)]>>, drop |-> 0]))
    IN input.drop > 2 /\ input.drop < last

\* C9: Next returns io.EOF exactly when it is called with nothing left to
\* read, and again on the call after that, and ParseAll returns an error
\* for an input that ends inside a record.
C9_EOFOnlyBetweenRecords ==
    /\ \A k \in 1..Len(nexts) :
           /\ IsEOF(nexts[k].err) <=> nexts[k].atEnd
           /\ IsEOF(nexts[k].err) => IsEOF(Next(parser).err)
    /\ all.done /\ Truncated => ~IsNil(all.err)

\* C10: Next accepts a record exactly when it starts with a proper BEGIN
\* line and is closed by a proper END line, and gives the card of the lines
\* between them; it fails with "expected beginning of card" on any other
\* first property and with "malformed end tag" on any other END property.
C10_Markers ==
    LET ref == RefRecords(LinesOf(input), parser.tail) IN
    /\ Len(nexts) <= Len(ref)
    /\ \A k \in 1..Len(nexts) :
           /\ IsNil(nexts[k].err) <=> ref[k].kind = "card"
           /\ ref[k].kind = "card" => nexts[k].card = ref[k].card
           /\ ref[k].kind \in {"badbegin", "badend"} =>
                  IsErrorOf(nexts[k].err, ref[k].kind)

\* Next has accepted a card with markers in small letters and has then
\* failed on a malformed end tag.
C10_Witness ==
    /\ Len(nexts) = 2
    /\ input.chunks[1] = 3 /\ IsNil(nexts[1].err)
    /\ nexts[2].err.kind = "ParseError" /\ nexts[2].err.msg = "malformed end tag"

\* C11: a grammar error of ParseAll carries the number of the input line
\* that holds the malformed construct: the line that is no property, the
\* first line that is no proper BEGIN, the END line that is malformed.
C11_ErrorLine ==
    all.done =>
        LET ref == RefRecords(LinesOf(input), parser.tail)
            bad == ref[Len(ref)]
        IN bad.kind \in {"syntax", "badbegin", "badend"} =>
               all.err.kind = "ParseError" /\ all.err.line = bad.next

\* The occurrences of name among the properties ps, in their order.
RECURSIVE OccurrencesOf(_, _)
OccurrencesOf(ps, name) ==
    IF ps = << >> THEN << >>
    ELSE IF Head(ps).name = name
    THEN <<Property(<< >>, EmptyMap, Head(ps).values)>> \o OccurrencesOf(Tail(ps), name)
    ELSE OccurrencesOf(Tail(ps), name)

\* C12: the values of a property are in its value list in input order, one
\* value for each comma and one more, and the properties of one name are in
\* the name's occurrence list in input order.
C12_OrderPreserved ==
    all.done =>
        /\ IsNil(all.err) /\ Len(all.cards) = 1
        /\ \A name \in OrderNames :
               Get(all.cards[1], name) = OccurrencesOf(input.props, name)

\* ParseAll has returned a card with two occurrences of P, the first with
\* the values "a" and "", the second with the one value "a".
C12_Witness ==
    /\ all.done /\ Len(all.cards) = 1
    /\ Len(Get(all.cards[1], B(<<"P">>))) = 2
    /\ Get(all.cards[1], B(<<"P">>))[1].values = <<B(<<"a">>), << >> >>
    /\ Get(all.cards[1], B(<<"P">>))[2].values = <<B(<<"a">>)>>

\* C13: the letter case of the markers, of their VCARD value and of the
\* names of properties, groups and parameters does not change the result:
\* it is the result for the input in capital letters, with the names stored
\* in capital letters and the values as they are in the input.
C13_CaseInsensitive ==
    all.done =>
        /\ [cards |-> all.cards, err |-> all.err]
               = ParseAll(CaseText(input.pv, input.v), EOFErr)
        /\ IsNil(all.err) /\ Len(all.cards) = 1
        /\ all.cards[1].m = MapPut(EmptyMap, B(<<"P">>),
               <<Property(B(<<"G">>),
                          MapPut(EmptyMap, B(<<"K">>), <<input.pv>>),
                          <<input.v>>)>>)

\* ParseAll has returned the card for the input that has every structural
\* letter small, the parameter value small and the property value capital.
C13_Witness ==
    /\ all.done /\ Len(all.cards) = 1
    /\ input.flips = CaseLetters
    /\ input.pv = B(<<"w">>) /\ input.v = B(<<"V">>)
    /\ Get(all.cards[1], B(<<"p">>))[1].values = <<B(<<"V">>)>>

\* C14: continuations put into a valid card do not change what ParseAll
\* returns: it is the one card, and no error, of the card without them.
C14_WrapTransparent ==
    all.done =>
        /\ IsNil(all.err) /\ Len(all.cards) = 1
        /\ [cards |-> all.cards, err |-> all.err] = ParseAll(CardOf(input), EOFErr)

\* ParseAll has returned the card of an input with a CRLF continuation in
\* the middle of the name BEGIN.
C14_Witness ==
    /\ all.done /\ Len(all.cards) = 1
    /\ input.folds = {3} /\ input.wrap = <<CR, LF, SP>>

\* The bytes e behind the last value start with a logical line terminator.
StartsWithTerminator(e) ==
    \/ Len(e) >= 1 /\ e[1] = LF
    \/ Len(e) >= 2 /\ e[1] = CR /\ e[2] = LF

IsUnexpectedCharacter(err, b) ==
    /\ err.kind = "ParseError"
    /\ err.msg = "unexpected character %q after property value"
    /\ err.arg = <<b>>

\* C15: parseProperty returns the property when its last value is followed
\* by the end of the input or by a line terminator, and fails with
\* "unexpected character" on any other byte there; a card whose END line is
\* followed by the end of the input is returned by ParseAll.
C15_AfterLastValue ==
    /\ nexts # << >> =>
           IF input.e = << >> \/ StartsWithTerminator(input.e)
           THEN /\ IsNil(nexts[1].err)
                /\ nexts[1].name = Lines[input.line].name
                /\ nexts[1].prop = Lines[input.line].prop
           ELSE IsUnexpectedCharacter(nexts[1].err, input.e[1])
    /\ all.done =>
           IF input.e = << >>
           THEN IsNil(all.err) /\ Len(all.cards) = 1
           ELSE StartsWithTerminator(input.e)
                \/ IsUnexpectedCharacter(all.err, input.e[1])

\* parseProperty has returned the property g.q;k=w:x,y that the input ends
\* behind, and ParseAll the card whose END line the input ends behind.
C15_Witness ==
    /\ input.e = << >> /\ input.line = 6
    /\ nexts # << >> /\ IsNil(nexts[1].err) /\ Len(nexts[1].prop.values) = 2
    /\ all.done /\ IsNil(all.err) /\ Len(all.cards) = 1

\* The cards that the calls of Next recorded in ns returned without error.
RECURSIVE CardsOf(_)
CardsOf(ns) ==
    IF ns = << >> THEN << >>
    ELSE IF IsNil(Head(ns).err) THEN <<Head(ns).card>> \o CardsOf(Tail(ns))
    ELSE CardsOf(Tail(ns))

\* C16: once Next, called again and again on one Parser, has returned an
\* error, ParseAll on the same input has returned the cards Next returned,
\* in order, and that error, nil in place of io.EOF.
C16_ParseAllIsNextLoop ==
    (all.done /\ nexts # << >> /\ ~IsNil(nexts[Len(nexts)].err)) =>
        /\ all.cards = CardsOf(nexts)
        /\ all.err = IF IsEOF(nexts[Len(nexts)].err) THEN NoErr
                     ELSE nexts[Len(nexts)].err

\* Next has returned two cards and then io.EOF, and ParseAll the two cards.
C16_Witness ==
    /\ all.done /\ Len(all.cards) = 2 /\ IsNil(all.err)
    /\ Len(nexts) = 3 /\ IsEOF(nexts[3].err)

\* The positions of a text where the line end term stands.
LineEnds(b, term) == {i \in 1..Len(b) : StartsWith(b, i, term)}

\* The k-th smallest element of the set S of numbers.
Nth(S, k) == CHOOSE i \in S : Cardinality({j \in S : j <= i}) = k

\* What stands before the k-th line end of b and behind the one before it;
\* for k one more than the number of line ends, what follows the last one.
TextLine(b, term, k) ==
    SubSeq(b,
           IF k = 1 THEN 1 ELSE Nth(LineEnds(b, term), k - 1) + Len(term),
           IF k > Cardinality(LineEnds(b, term)) THEN Len(b)
           ELSE Nth(LineEnds(b, term), k) - 1)

TextLines(b, term) ==
    [k \in 1..(Cardinality(LineEnds(b, term)) + 1) |-> TextLine(b, term, k)]

\* The lines of an UnfoldedString result (ended by "\n") or of a String
\* result (ended by "\r\n"); the last element is what follows the last line
\* end.
SerLines(s) ==
    IF s.op = "String" THEN TextLines(s.out, <<CR, LF>>) ELSE TextLines(s.out, <<LF>>)

HasVersion(c) == NameVERSION \in DOMAIN c.m

\* C17: in the output of UnfoldedString and of String the first line is
\* BEGIN:VCARD and the last line is END:VCARD, and when the card holds a
\* VERSION property the line directly after BEGIN:VCARD is a VERSION line,
\* in whatever order the properties were added and the map is iterated.
C17_VersionFirst ==
    ser.op # "none" =>
        /\ Len(SerLines(ser)) >= 3
        /\ SerLines(ser)[1] = NameBEGIN \o <<COLON>> \o ValueVCARD
        /\ SerLines(ser)[Len(SerLines(ser)) - 1] = NameEND \o <<COLON>> \o ValueVCARD
        /\ SerLines(ser)[Len(SerLines(ser))] = << >>
        /\ HasVersion(vcard) =>
               /\ IsPrefix(NameVERSION \o <<COLON>>, SerLines(ser)[2])
               /\ \A i \in 3..Len(SerLines(ser)) :
                      ~IsPrefix(NameVERSION, SerLines(ser)[i])

\* A card to which VERSION was added last, behind two other names, has been
\* serialized with another name first in the iteration order.
C17_Witness ==
    /\ ser.op # "none"
    /\ HasVersion(vcard)
    /\ Cardinality(DOMAIN vcard.m) = 3
    /\ ser.order[1] # NameVERSION
    /\ IsPrefix(NameVERSION \o <<COLON>>, SerLines(ser)[2])

\* The text of a value with backslash, comma and newline escaped, and the
\* comma-joined text of a list of values.
RefEscapeByte(b) ==
    IF b = BACKSLASH THEN <<BACKSLASH, BACKSLASH>>
    ELSE IF b = COMMA THEN <<BACKSLASH, COMMA>>
    ELSE IF b = LF THEN <<BACKSLASH, LowerN>>
    ELSE <<b>>

RefValueText(values) ==
    Join([i \in 1..Len(values) |->
              Flatten([j \in 1..Len(values[i]) |-> RefEscapeByte(values[i][j])])],
         <<COMMA>>)

\* ;KEY=value,value for the only parameter of a property, nothing for a
\* property without parameters.
RefParamText(params) ==
    IF DOMAIN params = {} THEN << >>
    ELSE LET key == CHOOSE k \in DOMAIN params : TRUE
         IN <<SEMI>> \o key \o <<EQUALS>>
            \o Join([i \in 1..Len(params[key]) |->
                         IF \E j \in 1..Len(params[key][i]) :
                                params[key][i][j] \in {SEMI, COLON}
                         THEN <<DQUOTE>> \o params[key][i] \o <<DQUOTE>>
                         ELSE params[key][i]],
                    <<COMMA>>)

\* What the line of an occurrence of the name holds from the name on.
RefOccurrence(name, prop) ==
    name \o RefParamText(prop.params) \o <<COLON>> \o RefValueText(prop.values)

\* The occurrences of a card as <<name, property>>, those of VERSION first and
\* then those of the other names in the order of the names, the occurrences
\* of one name in their stored order.
RECURSIVE RefOccurrencesIn(_, _)
RefOccurrencesIn(c, names) ==
    IF names = << >> THEN << >>
    ELSE [i \in 1..Len(c.m[Head(names)]) |-> <<Head(names), c.m[Head(names)][i]>>]
         \o RefOccurrencesIn(c, Tail(names))

RefOccurrences(c, order) ==
    RefOccurrencesIn(c, SelectSeq(order, LAMBDA n : n = NameVERSION)
                        \o SelectSeq(order, LAMBDA n : n # NameVERSION))

IsSuffix(a, b) == Len(a) <= Len(b) /\ SubSeq(b, Len(b) - Len(a) + 1, Len(b)) = a

\* C18: UnfoldedString writes exactly one line for every occurrence of the
\* card between the BEGIN and END lines, each with the parameters and values
\* of its occurrence and the occurrences of one name in their stored order:
\* the output has as many lines as the card has occurrences plus two.
C18_OneLinePerOccurrence ==
    ser.op = "UnfoldedString" =>
        /\ Len(SerLines(ser)) = Occurrences(vcard) + 3
        /\ \A k \in 1..Occurrences(vcard) :
               IsSuffix(RefOccurrence(RefOccurrences(vcard, ser.order)[k][1],
                                      RefOccurrences(vcard, ser.order)[k][2]),
                        SerLines(ser)[k + 1])

\* C19: the line of an occurrence with a non-empty group starts with the
\* group, a dot and the property name, whatever the length of the group; the
\* line of an occurrence without group starts with the property name.
C19_GroupPrefix ==
    ser.op = "UnfoldedString" /\ ~HasVersion(vcard) =>
        /\ Len(SerLines(ser)) = Occurrences(vcard) + 3
        /\ \A k \in 1..Occurrences(vcard) :
               IsPrefix((IF RefOccurrences(vcard, ser.order)[k][2].group # << >>
                         THEN RefOccurrences(vcard, ser.order)[k][2].group \o <<DOT>>
                         ELSE << >>)
                        \o RefOccurrences(vcard, ser.order)[k][1]
                        \o (IF RefOccurrences(vcard, ser.order)[k][2].params = EmptyMap
                            THEN <<COLON>> ELSE <<SEMI>>),
                        SerLines(ser)[k + 1])

\* C20: every physical line of Card.String() is at most 77 bytes long with
\* its "\r\n", so at most 75 bytes without, also when the value holds runes
\* of several bytes or a lone '\r'; the text ends with a line end.
C20_StringLineWidth ==
    ser.op = "String" =>
        /\ \A k \in 1..Cardinality(LineEnds(ser.out, <<CR, LF>>)) :
               Len(TextLine(ser.out, <<CR, LF>>, k)) + 2 <= StringWidth
        /\ TextLine(ser.out, <<CR, LF>>, Cardinality(LineEnds(ser.out, <<CR, LF>>)) + 1)
           = << >>

\* The property line was folded in front of a rune of several bytes that no
\* longer fitted: the second physical line has 74 bytes and the third one
\* starts with a space and the rune.
C20_Witness ==
    /\ ser.op = "String"
    /\ Cardinality(LineEnds(ser.out, <<CR, LF>>)) = 4
    /\ Len(TextLine(ser.out, <<CR, LF>>, 2)) = StringWidth - 3
    /\ Len(TextLine(ser.out, <<CR, LF>>, 3)) >= 3
    /\ TextLine(ser.out, <<CR, LF>>, 3)[1] = SP
    /\ TextLine(ser.out, <<CR, LF>>, 3)[2] >= 194

\* C21 as claimed: folding the result of Fold again at the same width gives
\* the same bytes, for every text and every width.
C21_FoldIdempotent == fpc = "refolded" => refolded = folded

\* C21: when width is at least 2 and width-2 is at least one more than the
\* byte length of every character of the text, folding the result of Fold
\* again at the same width gives the same bytes.
C21_FoldIdempotentFits ==
    (fpc = "refolded" /\ Fits(text, width)) => refolded = folded

\* A text that fits was folded, with a continuation line in the result, and
\* the result was folded again.
C21_Witness ==
    /\ fpc = "refolded" /\ Fits(text, width)
    /\ \E i \in 1..Len(folded) : StartsWith(folded, i, <<CR, LF, SP>>)
    /\ \E i \in 1..Len(text) : RuneLen(text[i]) = 2

\* Two names are equal ignoring the case of the letters A-Z.
EqualFold(a, b) ==
    /\ Len(a) = Len(b)
    /\ \A i \in 1..Len(a) :
           \/ a[i] = b[i]
           \/ /\ UpperA <= a[i] /\ a[i] <= UpperZ /\ b[i] = a[i] + (LowerA - UpperA)
           \/ /\ UpperA <= b[i] /\ b[i] <= UpperZ /\ a[i] = b[i] + (LowerA - UpperA)

\* The properties of the Add calls of the list made under a name equal to
\* name ignoring case, in the order of the calls.
RECURSIVE AddedUnder(_, _)
AddedUnder(log, name) ==
    IF log = << >> THEN << >>
    ELSE IF EqualFold(Head(log)[1], name)
    THEN <<Head(log)[2]>> \o AddedUnder(Tail(log), name)
    ELSE AddedUnder(Tail(log), name)

\* C22: after any sequence of Add calls on a zero Card, Get(name) returns
\* exactly the properties added under names equal to name ignoring letter
\* case, in the order they were added, and nothing for a name never added; so
\* Add changes the occurrences of no other name.
C22_GetReturnsAdded ==
    ser.op = "Get" => ser.out = AddedUnder(input, ser.order)

\* Get returned two different properties added under the two cases of a name,
\* with an Add under another name between them.
C22_Witness ==
    /\ ser.op = "Get"
    /\ Len(input) = 3
    /\ Len(ser.out) = 2
    /\ ser.out[1] # ser.out[2]
    /\ input[1][1] # input[3][1]
    /\ ~EqualFold(input[2][1], ser.order)

\* Every occurrence of the card has at least one value.
WellFormed(c) ==
    \A n \in DOMAIN c.m : \A i \in 1..Len(c.m[n]) : Len(c.m[n][i].values) >= 1

C24_SourceErrorSurfaced ==
    /\ ~IsNil(res.err) => res.err = IOErr
    /\ \A i \in 1..Len(nexts) : ~IsNil(nexts[i].err) => nexts[i].err = IOErr
    /\ all.done => all.err = IOErr

\* The values of the parameters ps[i..] whose name is key ignoring case, in
\* input order.
RECURSIVE ValuesUnder(_, _)
ValuesUnder(ps, key) ==
    IF ps = << >> THEN << >>
    ELSE (IF ToUpper(Head(ps).key) = key THEN Head(ps).values ELSE << >>)
         \o ValuesUnder(Tail(ps), key)

\* The values of the first parameter of ps whose name is key ignoring case.
FirstUnder(ps, key) ==
    ps[CHOOSE i \in 1..Len(ps) :
           /\ ToUpper(ps[i].key) = key
           /\ \A j \in 1..(i - 1) : ToUpper(ps[j].key) # key].values

KeysOf(ps) == {ToUpper(ps[i].key) : i \in 1..Len(ps)}

Repeated(ps) ==
    {k \in KeysOf(ps) : Cardinality({i \in 1..Len(ps) : ToUpper(ps[i].key) = k}) > 1}

\* The parameters of the one property P of the one card in cards.
ParsedParams(cards) == Get(cards[1], B(<<"P">>))[1].params

\* C25 as stated: a parameter name that occurs more than once in a property
\* either makes the parse fail with a duplicate-parameter error or leaves
\* the parameter with exactly the values of its first occurrence.
C25_FirstOccurrenceKept ==
    all.done =>
        \A k \in Repeated(input.params) :
            \/ /\ ~IsNil(all.err)
               /\ all.err.msg = "duplicate parameter %q"
            \/ /\ IsNil(all.err) /\ Len(all.cards) = 1
               /\ MapGet(ParsedParams(all.cards), k) = FirstUnder(input.params, k)

\* C25, amended: a repeated parameter name is no error and nothing is
\* replaced: the parameter holds the values of all its occurrences in input
\* order, those of the first occurrence in front.
C25_OccurrencesConcatenated ==
    /\ all.done =>
           /\ IsNil(all.err) /\ Len(all.cards) = 1
           /\ DOMAIN ParsedParams(all.cards) = KeysOf(input.params)
           /\ \A k \in KeysOf(input.params) :
                  ParsedParams(all.cards)[k] = ValuesUnder(input.params, k)
    /\ Len(nexts) >= 1 =>
           /\ IsNil(nexts[1].err)
           /\ \A k \in KeysOf(input.params) :
                  MapGet(ParsedParams(<<nexts[1].card>>), k) = ValuesUnder(input.params, k)

\* ParseAll has returned the card of P;K=a;L=b;k=b,a:x, where K holds the
\* value of its first occurrence followed by those of the second.
C25_Witness ==
    /\ all.done /\ Len(all.cards) = 1
    /\ Len(input.params) = 3
    /\ input.params[1] = [key |-> B(<<"K">>), values |-> <<B(<<"a">>)>>]
    /\ input.params[3].key = B(<<"k">>)
    /\ ParsedParams(all.cards)[B(<<"K">>)] = <<B(<<"a">>)>> \o input.params[3].values
    /\ Len(input.params[3].values) = 2

\* The number of '\n' bytes the reader has taken from its source.
TakenLFs(r) == Cardinality({i \in 1..(r.pos - 1) : r.src[i] = LF})

\* C26: Line() is 1 on a new reader, never decreases, and always is 1 plus
\* the number of line terminators whose LF has been taken from the source,
\* each counted once, also when its LF is handed out later from the peek
\* slot or the unread stack or was removed with a continuation.
C26_LineCount ==
    /\ [](Line(rd) = 1 + TakenLFs(rd))
    /\ [](res.op = "new" => Line(rd) = 1)
    /\ [][Line(rd') >= Line(rd)]_vars

\* Of "\n \n\n" the first terminator went with its continuation and both
\* others were handed out, the last one from the unread stack: line 4.
C26_Witness ==
    /\ rd.src = <<LF, SP, LF, LF>>
    /\ out = <<LF, LF>>
    /\ rd.unread = << >> /\ rd.peeked = NoPeek
    /\ Line(rd) = 4

\* C27: whatever the source and the calls made, the unread stack holds at
\* most one byte, the last one taken from the source, and the peek slot at
\* most one more, the next byte of the unfolded text; the next ReadByte
\* hands out that byte, so what is held goes out in source order.
C27_PendingBounded ==
    /\ Len(rd.unread) <= 1
    /\ rd.unread # << >> => rd.pos > 1 /\ rd.unread[1] = rd.src[rd.pos - 1]
    /\ rd.peeked # NoPeek =>
           /\ rd.peeked \in 0..255
           /\ Len(out) < Len(RefUnfold(rd.src))
           /\ rd.peeked = RefUnfold(rd.src)[Len(out) + 1]
    /\ IsNil(ReadByte(rd).err) =>
           /\ Len(out) < Len(RefUnfold(rd.src))
           /\ ReadByte(rd).b = RefUnfold(rd.src)[Len(out) + 1]
           /\ Len(ReadByte(rd).r.unread) <= 1

\* Behind the terminator of "\r\na" the reader holds the '\n' in the peek
\* slot and the 'a' it read ahead on the unread stack.
C27_Witness ==
    /\ Len(rd.src) >= 3 /\ SubSeq(rd.src, 1, 3) = <<CR, LF, LowerA>>
    /\ out = << >>
    /\ rd.peeked = LF /\ rd.unread = <<LowerA>>

\* The number of the line that holds the last byte of the source s.
LastLine(s) == 1 + Cardinality({i \in 1..Len(s) : s[i] = LF})

\* C28: when the input ends where the parser demands a structural byte (the
\* ';' or ':' behind a name, the '=' behind a parameter name, the ':' behind
\* the parameters, the character behind a backslash), the error is a
\* ParseError with the message passed to demandByte for that byte and the
\* current line.
C28_DemandedMessage ==
    LET want == ParseError(LastLine(DemandBytes(input)),
                           DemandCuts[input.cut].msg, << >>)
        Is(err) == /\ err.kind = want.kind
                   /\ err.line = want.line
                   /\ err.msg = want.msg
    IN /\ all.done => Is(all.err)
       /\ \A i \in 1..Len(nexts) : ~IsNil(nexts[i].err) => Is(nexts[i].err)

\* C30: an empty value is written as no character at all: in a card with at
\* most one VERSION occurrence, where the k-th line after BEGIN is that of
\* the k-th occurrence, every line ends with the ':' and the escaped values
\* of its occurrence joined by commas, an empty value giving nothing.
C30_EmptyValueNoCharacters ==
    (/\ ser.op = "UnfoldedString"
     /\ Len(Get(vcard, NameVERSION)) <= 1) =>
        \A k \in 1..Occurrences(vcard) :
            /\ k + 1 <= Len(SerLines(ser))
            /\ IsSuffix(<<COLON>> \o RefValueText(RefOccurrences(vcard, ser.order)[k][2].values),
                        SerLines(ser)[k + 1])

\* C29: writing a parsed card with String and parsing the text again gives
\* the card back: ParseAll succeeds and returns one card with the same
\* names, and for each name the same occurrences in the same order with the
\* same group, parameters and values.
C29_StringParseIdentity ==
    all.done =>
        /\ IsNil(all.err)
        /\ Len(all.cards) = 1
        /\ all.cards[1] = vcard

====
